---- MODULE Spec2Model ----
(***************************************************************************)
(* The LIT card game server (src/server.js): the socket.io handlers of one *)
(* process, the gameRooms map they share, and the helper functions they    *)
(* call.  Node runs every handler to completion, so each handler is one    *)
(* atomic action.                                                          *)
(*                                                                         *)
(* Abstractions, all of them on data the server never reads:               *)
(*   - a card's random `id` string is left out (no server code reads it);  *)
(*     a card is its (suit, rank, setType);                                *)
(*   - a hand is the set of its cards: the handlers only search a hand     *)
(*     (some/findIndex/filter) and push a card the requester was just      *)
(*     checked not to hold, so the order in the array is never observed;   *)
(*   - socket ids are the integers 1, 2, ... in the order the sockets      *)
(*     connect, and a player name is an integer; 0 stands for null;        *)
(*   - lastAction, a formatted string, is the tuple of the values the      *)
(*     string is formatted from.                                           *)
(***************************************************************************)
EXTENDS Integers, Sequences, FiniteSets, TLC

(***************************************************************************)
(* Bounds of the model.  A quota bounds the events of one specification:   *)
(*   conns      sockets ever opened                                        *)
(*   idle       sockets open at the same time that hold no seat; a client  *)
(*              opens a socket only while some room has a seat for it      *)
(*   odd        what is spent on events out of the ordinary course of a    *)
(*              room: 1 when a socket that holds a seat disconnects, 2     *)
(*              when a socket takes a second seat and when startGame or    *)
(*              shuffleTeams is accepted in a room that is not waiting     *)
(*   oddIn      the gameStatus values of the rooms where they happen       *)
(*   oddSockets the sockets that disconnect while they hold a seat or take *)
(*              a second seat                                              *)
(*   picks      seats that hold a team while joinTeam is still accepted    *)
(*   shuffles   shuffleTeams events accepted in a waiting room             *)
(*   captures   sets captured when the last declareSet has been accepted   *)
(*   sets       the sets the clients declare: that many of DeclOrder, from *)
(*              its first                                                  *)
(*   skips      how far in DeclOrder a declared set is beyond the first    *)
(*              sets of it, as many as are captured                        *)
(***************************************************************************)
MaxConns == 7
MaxOdd == 2
MaxPicks == 2
MaxShuffles == 1
MaxCaptures == 1
\* the longest seat list getNextPlayer is run on, on its own
MaxSeats == 4
LobbyQuota == [conns |-> MaxConns, idle |-> 1, odd |-> MaxOdd, oddIn |-> {"waiting"},
               oddSockets |-> {1},
               picks |-> MaxPicks, shuffles |-> MaxShuffles, captures |-> MaxCaptures, sets |-> 5,
               skips |-> 8]
OddQuota   == [conns |-> MaxConns + 1, idle |-> 1, odd |-> MaxOdd,
               oddIn |-> {"playing", "finished"}, oddSockets |-> {1, 6},
               picks |-> 0, shuffles |-> 0, captures |-> MaxCaptures, sets |-> 5,
               skips |-> 8]
GameQuota  == [conns |-> 6, idle |-> 0, odd |-> 0, oddIn |-> {},
               oddSockets |-> {},
               picks |-> 0, shuffles |-> 0, captures |-> 8, sets |-> 8,
               skips |-> 1]
\* room names the clients use
RoomNames == {"R1"}
\* playerCount values the clients send with createRoom
PlayerCounts == {6}
\* teams the clients send with joinTeam
TeamInputs == {"red", "blue"}
\* values Math.random() returns, as <<numerator, denominator>>: when the
\* teams are shuffled and when the deck is (one shuffle draws the same value
\* at each of its steps), when the first turn is drawn, and when the next
\* player is drawn after a declaration
ShuffleRands == {<<0, 1>>, <<99, 100>>}
DeckRands == {<<0, 1>>}
\* values Math.random() returns in the games that only deal: for the shuffle
\* of the teams, for the shuffle of the deck and for the first turn
DealRands == {<<k, 8>> : k \in 0..7}
TurnRands == {<<0, 1>>, <<99, 100>>}
PickRands == {<<0, 1>>, <<1, 2>>, <<99, 100>>}
\* the cards the clients ask for; the last one is no card of the deck
RequestCards == {[suit |-> "spades", rank |-> "ace", setType |-> "lower"],
                 [suit |-> "spades", rank |-> "2", setType |-> "lower"],
                 [suit |-> "diamonds", rank |-> "ace", setType |-> "lower"],
                 [suit |-> "spades", rank |-> "ace", setType |-> "upper"]}
\* the sets the clients declare; a client declares no set listed before one
\* that is captured already
DeclOrder == <<[suit |-> "spades", setType |-> "upper"],
               [suit |-> "hearts", setType |-> "lower"],
               [suit |-> "hearts", setType |-> "upper"],
               [suit |-> "spades", setType |-> "lower"],
               [suit |-> "diamonds", setType |-> "lower"],
               [suit |-> "diamonds", setType |-> "upper"],
               [suit |-> "clubs", setType |-> "lower"],
               [suit |-> "clubs", setType |-> "upper"]>>

\* the players isValidRequest is applied to: their teams and their hands
RequestTeams == {"red", "blue", "unassigned"}
RequesterHands == {{},
                   {[suit |-> "spades", rank |-> "2", setType |-> "lower"]},
                   {[suit |-> "spades", rank |-> "ace", setType |-> "lower"],
                    [suit |-> "diamonds", rank |-> "3", setType |-> "lower"]},
                   {[suit |-> "spades", rank |-> "8", setType |-> "upper"],
                    [suit |-> "hearts", rank |-> "ace", setType |-> "lower"]}}
TargetHands == {{},
                {[suit |-> "spades", rank |-> "ace", setType |-> "lower"]},
                {[suit |-> "clubs", rank |-> "king", setType |-> "upper"]}}

NoId == 0

(***************************************************************************)
(* Cards: createAndShuffleDeck builds the deck suit by suit, the six lower *)
(* ranks and then the six upper ranks of each.                             *)
(***************************************************************************)
suits == <<"spades", "hearts", "diamonds", "clubs">>
lowerRanks == <<"ace", "2", "3", "4", "5", "6">>
upperRanks == <<"8", "9", "10", "jack", "queen", "king">>

Range(s) == {s[i] : i \in DOMAIN s}
Suits == Range(suits)
Ranks == Range(lowerRanks) \cup Range(upperRanks)
SetTypes == {"lower", "upper"}

Card(s, r, t) == [suit |-> s, rank |-> r, setType |-> t]

\* the deck before it is shuffled: 12 cards per suit, in the order of the loops
UnshuffledDeck ==
  [k \in 1..48 |->
     LET s == suits[((k - 1) \div 12) + 1]
         m == (k - 1) % 12
     IN  IF m < 6 THEN Card(s, lowerRanks[m + 1], "lower")
                  ELSE Card(s, upperRanks[m - 5], "upper")]

Swap(seq, a, b) == [seq EXCEPT ![a] = seq[b], ![b] = seq[a]]

\* for (i = length-1; i > 0; i--) { j = floor(random()*(i+1)); swap(i, j) }
\* with 0-based i and j; `i` here is the 0-based loop index
RECURSIVE FisherYatesFrom(_, _, _)
FisherYatesFrom(seq, i, r) ==
  IF i <= 0 THEN seq
  ELSE LET j == (r[1] * (i + 1)) \div r[2]
       IN  FisherYatesFrom(Swap(seq, i + 1, j + 1), i - 1, r)

FisherYates(seq, r) == FisherYatesFrom(seq, Len(seq) - 1, r)

\* the decks createAndShuffleDeck returns, by the value Math.random() returns
ShuffledDecks == [r \in DeckRands \cup DealRands |-> FisherYates(UnshuffledDeck, r)]

createAndShuffleDeck(r) == ShuffledDecks[r]

(***************************************************************************)
(* Seats and rooms.                                                        *)
(***************************************************************************)
Player(id, name) ==
  [id |-> id, name |-> name, team |-> "unassigned", hand |-> {},
   connected |-> TRUE, canClaimTurn |-> FALSE]

NoAction == <<"null", 0, 0, "-", "-", "-", "-">>

NewRoom(player, playerCount) ==
  [players |-> <<player>>, currentTurnPlayerId |-> NoId, capturedSets |-> <<>>,
   gameStatus |-> "waiting", winner |-> "null", adminId |-> player.id,
   lastAction |-> NoAction, playerCount |-> playerCount]

\* Array.prototype.findIndex on the seat list, 1-based; 0 when nothing matches
FindIndexById(players, id) ==
  IF \E i \in DOMAIN players : players[i].id = id
  THEN CHOOSE i \in DOMAIN players :
         /\ players[i].id = id
         /\ \A k \in 1..(i - 1) : players[k].id # id
  ELSE 0

FindIndexByName(players, name) ==
  IF \E i \in DOMAIN players : players[i].name = name
  THEN CHOOSE i \in DOMAIN players :
         /\ players[i].name = name
         /\ \A k \in 1..(i - 1) : players[k].name # name
  ELSE 0

\* players.filter(p => p.team === team).length
TeamCount(players, team) ==
  Cardinality({i \in DOMAIN players : players[i].team = team})

\* player.canClaimTurn = false, for every player
ResetClaims(players) ==
  [i \in DOMAIN players |-> [players[i] EXCEPT !.canClaimTurn = FALSE]]

requiredRanks(setType) ==
  IF setType = "lower" THEN Range(lowerRanks) ELSE Range(upperRanks)

HasCardOfSet(hand, suit, setType) ==
  \E card \in hand : card.suit = suit /\ card.setType = setType

(***************************************************************************)
(* Helper functions of the server.                                         *)
(***************************************************************************)
\* isValidRequest without its third check: a request for a card the requester
\* holds passes
isValidRequestNoHeld(requestingPlayer, targetPlayer, requestedCard) ==
  IF requestingPlayer.team = targetPlayer.team \/ targetPlayer.team = "unassigned"
  THEN [valid |-> FALSE, reason |-> "OpponentsOnly"]
  ELSE IF targetPlayer.hand = {}
  THEN [valid |-> FALSE, reason |-> "NoCardsLeft"]
  ELSE IF ~ HasCardOfSet(requestingPlayer.hand, requestedCard.suit,
                         requestedCard.setType)
  THEN [valid |-> FALSE, reason |-> "NoCardOfSet"]
  ELSE [valid |-> TRUE, reason |-> "-"]

isValidRequest(requestingPlayer, targetPlayer, requestedCard) ==
  IF requestingPlayer.team = targetPlayer.team \/ targetPlayer.team = "unassigned"
  THEN [valid |-> FALSE, reason |-> "OpponentsOnly"]
  ELSE IF targetPlayer.hand = {}
  THEN [valid |-> FALSE, reason |-> "NoCardsLeft"]
  ELSE IF \E card \in requestingPlayer.hand :
            /\ card.suit = requestedCard.suit
            /\ card.rank = requestedCard.rank
            /\ card.setType = requestedCard.setType
  THEN [valid |-> FALSE, reason |-> "AlreadyHeld"]
  ELSE IF ~ HasCardOfSet(requestingPlayer.hand, requestedCard.suit,
                         requestedCard.setType)
  THEN [valid |-> FALSE, reason |-> "NoCardOfSet"]
  ELSE [valid |-> TRUE, reason |-> "-"]

\* transferCard without the splice: the card is pushed to toPlayer's hand and
\* stays in fromPlayer's
transferCardKeep(fromPlayer, toPlayer, suit, rank, setType) ==
  LET found == {card \in fromPlayer.hand :
                  card.suit = suit /\ card.rank = rank /\ card.setType = setType}
  IN  [fromPlayer |-> fromPlayer,
       toPlayer   |-> [toPlayer EXCEPT !.hand = @ \cup found],
       success    |-> found # {}]

transferCard(fromPlayer, toPlayer, suit, rank, setType) ==
  LET found == {card \in fromPlayer.hand :
                  card.suit = suit /\ card.rank = rank /\ card.setType = setType}
  IN  IF found = {}
      THEN [fromPlayer |-> fromPlayer, toPlayer |-> toPlayer, success |-> FALSE]
      ELSE LET card == CHOOSE x \in found : TRUE
           IN  [fromPlayer |-> [fromPlayer EXCEPT !.hand = @ \ {card}],
                toPlayer   |-> [toPlayer EXCEPT !.hand = @ \cup {card}],
                success    |-> TRUE]

\* teamHasCompleteSet looking for the six ranks in one hand at a time, not in
\* the hands of the team together
teamHasCompleteSetOneHand(players, team, suit, setType) ==
  \E i \in {k \in DOMAIN players : players[k].team = team} :
    \A rank \in requiredRanks(setType) :
      \E card \in players[i].hand : card.suit = suit /\ card.rank = rank

teamHasCompleteSet(players, team, suit, setType) ==
  LET teamCards == UNION {players[i].hand :
                            i \in {k \in DOMAIN players : players[k].team = team}}
  IN  \A rank \in requiredRanks(setType) :
        \E card \in teamCards : card.suit = suit /\ card.rank = rank

\* checkWinCondition with the thresholds one set lower: a team wins with
\* more than 3 sets
checkWinConditionAtFour(capturedSets) ==
  LET redSets   == Cardinality({i \in DOMAIN capturedSets :
                                  capturedSets[i].team = "red"})
      blueSets  == Cardinality({i \in DOMAIN capturedSets :
                                  capturedSets[i].team = "blue"})
      totalSets == redSets + blueSets
  IN  IF redSets > 3 THEN "red"
      ELSE IF blueSets > 3 THEN "blue"
      ELSE IF totalSets = 8
           THEN IF redSets > blueSets THEN "red"
                ELSE IF blueSets > redSets THEN "blue"
                ELSE "draw"
      ELSE "null"

checkWinCondition(capturedSets) ==
  LET redSets   == Cardinality({i \in DOMAIN capturedSets :
                                  capturedSets[i].team = "red"})
      blueSets  == Cardinality({i \in DOMAIN capturedSets :
                                  capturedSets[i].team = "blue"})
      totalSets == redSets + blueSets
  IN  IF redSets > 4 THEN "red"
      ELSE IF blueSets > 4 THEN "blue"
      ELSE IF totalSets = 8
           THEN IF redSets > blueSets THEN "red"
                ELSE IF blueSets > redSets THEN "blue"
                ELSE "draw"
      ELSE "null"

\* one iteration of the while loop without the test that the search is
\* back at the current player
WhileStepNoStop(players, nextIndex, currentPlayerIndex, currentPlayerId) ==
  IF players[nextIndex].connected
  THEN [returned |-> TRUE, value |-> players[nextIndex].id, nextIndex |-> nextIndex]
  ELSE [returned |-> FALSE, value |-> NoId,
        nextIndex |-> (nextIndex % Len(players)) + 1]

\* one iteration of the while loop of getNextPlayer, from its test to the
\* end of its body (nextIndex 1-based)
WhileStep(players, nextIndex, currentPlayerIndex, currentPlayerId) ==
  IF players[nextIndex].connected
  THEN [returned |-> TRUE, value |-> players[nextIndex].id, nextIndex |-> nextIndex]
  ELSE LET n == (nextIndex % Len(players)) + 1
       IN  IF n = currentPlayerIndex
           THEN [returned |-> TRUE, value |-> currentPlayerId, nextIndex |-> n]
           ELSE [returned |-> FALSE, value |-> NoId, nextIndex |-> n]

\* the while loop of getNextPlayer, entered with nextIndex (here 1-based)
RECURSIVE NextConnectedFrom(_, _, _, _)
NextConnectedFrom(players, nextIndex, currentPlayerIndex, currentPlayerId) ==
  IF players[nextIndex].connected THEN players[nextIndex].id
  ELSE LET n == (nextIndex % Len(players)) + 1
       IN  IF n = currentPlayerIndex THEN currentPlayerId
           ELSE NextConnectedFrom(players, n, currentPlayerIndex, currentPlayerId)

\* getNextPlayer without the while loop: the next seat, connected or not
getNextPlayerNoSkip(currentPlayerId, players) ==
  LET currentPlayerIndex == FindIndexById(players, currentPlayerId)
  IN  IF currentPlayerIndex = 0 THEN players[1].id
      ELSE players[(currentPlayerIndex % Len(players)) + 1].id

getNextPlayer(currentPlayerId, players) ==
  LET currentPlayerIndex == FindIndexById(players, currentPlayerId)
  IN  IF currentPlayerIndex = 0 THEN players[1].id
      ELSE NextConnectedFrom(players, (currentPlayerIndex % Len(players)) + 1,
                             currentPlayerIndex, currentPlayerId)

(***************************************************************************)
(* The handlers, each as the function from the room it finds (and the      *)
(* event's data) to the room it leaves and the outcome it reports.         *)
(***************************************************************************)
Out(room, result) == [room |-> room, result |-> result]

\* joinRoom without the lookup of the name: every join of a room that is not
\* full appends a seat
joinRoomNoLookup(room, socketId, playerName) ==
  IF Len(room.players) >= room.playerCount THEN Out(room, "RoomFull")
  ELSE Out([room EXCEPT !.players = Append(@, Player(socketId, playerName))],
           "joined")

\* socket.on('joinRoom'), for a room that exists
joinRoom(room, socketId, playerName) ==
  IF Len(room.players) >= room.playerCount THEN Out(room, "RoomFull")
  ELSE LET e == FindIndexByName(room.players, playerName)
       IN  IF e # 0
           THEN IF ~ room.players[e].connected
                THEN Out([room EXCEPT !.players[e].id = socketId,
                                      !.players[e].connected = TRUE],
                         "reconnected")
                ELSE Out(room, "NameTaken")
           ELSE Out([room EXCEPT !.players =
                       Append(@, Player(socketId, playerName))],
                    "joined")

\* socket.on('createRoom'), for a room name that is taken
createRoomExisting(existingRoom, socketId, playerName) ==
  LET e == FindIndexByName(existingRoom.players, playerName)
  IN  IF e # 0
      THEN IF ~ existingRoom.players[e].connected
           THEN Out([existingRoom EXCEPT !.players[e].id = socketId,
                                         !.players[e].connected = TRUE],
                    "reconnected")
           ELSE Out(existingRoom, "NameTaken")
      ELSE Out(existingRoom, "RoomAlreadyExists")

maxTeamSize(playerCount) == IF playerCount = 6 THEN 3 ELSE 4

\* six cards a seat, whatever the number of players
cardsPerPlayerSix(playerCount) == 6

cardsPerPlayer(playerCount) == IF playerCount = 6 THEN 8 ELSE 6

\* joinTeam without the test of the size of the team
joinTeamNoLimit(room, socketId, team) ==
  LET playerIndex == FindIndexById(room.players, socketId)
  IN  IF playerIndex = 0 THEN Out(room, "PlayerNotFound")
      ELSE Out([room EXCEPT !.players[playerIndex].team = team], "ok")

\* socket.on('joinTeam')
joinTeam(room, socketId, team) ==
  LET playerIndex == FindIndexById(room.players, socketId)
  IN  IF playerIndex = 0 THEN Out(room, "PlayerNotFound")
      ELSE IF TeamCount(room.players, team) >= maxTeamSize(room.playerCount)
      THEN Out(room, "TeamFull")
      ELSE Out([room EXCEPT !.players[playerIndex].team = team], "ok")

\* the team loop with the comparison i <= teamsSize
AssignTeamsOneMore(shuffledPlayers, teamsSize) ==
  [i \in DOMAIN shuffledPlayers |->
     [shuffledPlayers[i] EXCEPT !.team = IF i - 1 <= teamsSize THEN "red" ELSE "blue"]]

\* the team loop of shuffleTeams
AssignTeams(shuffledPlayers, teamsSize) ==
  [i \in DOMAIN shuffledPlayers |->
     [shuffledPlayers[i] EXCEPT !.team = IF i - 1 < teamsSize THEN "red" ELSE "blue"]]

\* socket.on('shuffleTeams'); r is the value Math.random() returns
shuffleTeams(room, socketId, r) ==
  IF room.adminId # socketId THEN Out(room, "NotAdmin")
  ELSE Out([room EXCEPT !.players =
              AssignTeams(FisherYates(room.players, r),
                          maxTeamSize(room.playerCount))],
           "ok")

\* deck.slice(i * cardsPerPlayer, (i + 1) * cardsPerPlayer), i 0-based
DealHands(players, deck, perPlayer) ==
  [i \in DOMAIN players |->
     [players[i] EXCEPT !.hand =
        {deck[k] : k \in {n \in DOMAIN deck :
                            (i - 1) * perPlayer < n /\ n <= i * perPlayer}}]]

\* startGame without the test of the balance of the teams
startGameUnbalanced(room, socketId, r, randomIndex) ==
  IF room.adminId # socketId THEN Out(room, "NotAdmin")
  ELSE IF Len(room.players) # room.playerCount THEN Out(room, "RoomNotFull")
  ELSE LET dealt == DealHands(room.players, createAndShuffleDeck(r),
                              cardsPerPlayer(room.playerCount))
       IN  Out([room EXCEPT !.players = dealt,
                            !.currentTurnPlayerId = dealt[randomIndex + 1].id,
                            !.gameStatus = "playing"],
               "started")

\* socket.on('startGame'); r shuffles the deck, randomIndex (0-based) is the
\* first turn
startGame(room, socketId, r, randomIndex) ==
  IF room.adminId # socketId THEN Out(room, "NotAdmin")
  ELSE IF Len(room.players) # room.playerCount THEN Out(room, "RoomNotFull")
  ELSE IF \/ TeamCount(room.players, "red") # maxTeamSize(room.playerCount)
          \/ TeamCount(room.players, "blue") # maxTeamSize(room.playerCount)
  THEN Out(room, "TeamsUnbalanced")
  ELSE LET dealt == DealHands(room.players, createAndShuffleDeck(r),
                              cardsPerPlayer(room.playerCount))
       IN  Out([room EXCEPT !.players = dealt,
                            !.currentTurnPlayerId = dealt[randomIndex + 1].id,
                            !.gameStatus = "playing"],
               "started")

\* the two branches of requestCard after a valid request
RequestHit(room, requestingPlayer, targetPlayer, transferResult, requestedCard) ==
  LET requestingPlayerIndex == FindIndexById(room.players, requestingPlayer.id)
      targetPlayerIndex     == FindIndexById(room.players, targetPlayer.id)
      put1 == [room.players EXCEPT ![requestingPlayerIndex] = transferResult.toPlayer]
      put2 == [put1 EXCEPT ![targetPlayerIndex] = transferResult.fromPlayer]
  IN  [room EXCEPT !.players = put2,
                   !.lastAction = <<"received", requestingPlayer.name,
                                    targetPlayer.name, requestedCard.suit,
                                    requestedCard.rank, requestedCard.setType, "-">>]

\* the miss branch without the assignment to currentTurnPlayerId
RequestMissKeepTurn(room, requestingPlayer, targetPlayer, targetPlayerId, requestedCard) ==
  [room EXCEPT !.lastAction = <<"asked", requestingPlayer.name, targetPlayer.name,
                                requestedCard.suit, requestedCard.rank,
                                requestedCard.setType, "-">>]

RequestMiss(room, requestingPlayer, targetPlayer, targetPlayerId, requestedCard) ==
  [room EXCEPT !.currentTurnPlayerId = targetPlayerId,
               !.lastAction = <<"asked", requestingPlayer.name, targetPlayer.name,
                                requestedCard.suit, requestedCard.rank,
                                requestedCard.setType, "-">>]

\* requestCard with the canClaimTurn reset moved above the turn check, where
\* declareSet has it
requestCardResetFirst(room, socketId, targetPlayerId, requestedCard) ==
  LET reset == [room EXCEPT !.players = ResetClaims(@)]
  IN  IF room.currentTurnPlayerId # socketId THEN Out(reset, "NotYourTurn")
      ELSE LET ri == FindIndexById(reset.players, socketId)
               ti == FindIndexById(reset.players, targetPlayerId)
           IN  IF ri = 0 \/ ti = 0 THEN Out(reset, "PlayerNotFound")
               ELSE LET result == isValidRequest(reset.players[ri], reset.players[ti],
                                                 requestedCard)
                        transferResult ==
                          transferCard(reset.players[ti], reset.players[ri],
                                       requestedCard.suit, requestedCard.rank,
                                       requestedCard.setType)
                    IN  IF ~ result.valid THEN Out(reset, "InvalidRequest")
                        ELSE IF transferResult.success
                        THEN Out(RequestHit(reset, reset.players[ri], reset.players[ti],
                                            transferResult, requestedCard), "hit")
                        ELSE Out(RequestMiss(reset, reset.players[ri], reset.players[ti],
                                             targetPlayerId, requestedCard), "miss")

\* requestCard without the reset of the canClaimTurn flags
requestCardNoReset(room, socketId, targetPlayerId, requestedCard) ==
  IF room.currentTurnPlayerId # socketId THEN Out(room, "NotYourTurn")
  ELSE LET ri == FindIndexById(room.players, socketId)
           ti == FindIndexById(room.players, targetPlayerId)
       IN  IF ri = 0 \/ ti = 0 THEN Out(room, "PlayerNotFound")
           ELSE LET result == isValidRequest(room.players[ri], room.players[ti],
                                             requestedCard)
                    transferResult ==
                      transferCard(room.players[ti], room.players[ri],
                                   requestedCard.suit, requestedCard.rank,
                                   requestedCard.setType)
                IN  IF ~ result.valid THEN Out(room, "InvalidRequest")
                    ELSE IF transferResult.success
                    THEN Out(RequestHit(room, room.players[ri], room.players[ti],
                                        transferResult, requestedCard), "hit")
                    ELSE Out(RequestMiss(room, room.players[ri], room.players[ti],
                                         targetPlayerId, requestedCard), "miss")

\* socket.on('requestCard'), for a room that is playing
requestCard(room, socketId, targetPlayerId, requestedCard) ==
  IF room.currentTurnPlayerId # socketId THEN Out(room, "NotYourTurn")
  ELSE LET reset == [room EXCEPT !.players = ResetClaims(@)]
           ri == FindIndexById(reset.players, socketId)
           ti == FindIndexById(reset.players, targetPlayerId)
       IN  IF ri = 0 \/ ti = 0 THEN Out(reset, "PlayerNotFound")
           ELSE LET requestingPlayer == reset.players[ri]
                    targetPlayer     == reset.players[ti]
                    result == isValidRequest(requestingPlayer, targetPlayer,
                                             requestedCard)
                IN  IF ~ result.valid THEN Out(reset, "InvalidRequest")
                    ELSE LET transferResult ==
                               transferCard(targetPlayer, requestingPlayer,
                                            requestedCard.suit, requestedCard.rank,
                                            requestedCard.setType)
                         IN  IF transferResult.success
                             THEN Out(RequestHit(reset, requestingPlayer,
                                                 targetPlayer, transferResult,
                                                 requestedCard), "hit")
                             ELSE Out(RequestMiss(reset, requestingPlayer,
                                                  targetPlayer, targetPlayerId,
                                                  requestedCard), "miss")

\* the k-th (0-based) smallest element of a set of seat indices: the element
\* filter() leaves at position k
Nth(S, k) == CHOOSE i \in S : Cardinality({x \in S : x < i}) = k

\* Math.floor(Math.random() * length)
RandomIndex(r, length) == (r[1] * length) \div r[2]

otherTeam(team) == IF team = "red" THEN "blue" ELSE "red"

\* the branch for a correct declaration without the assignment to
\* currentTurnPlayerId
DeclareCorrectKeepTurn(room, d, declaration) ==
  LET declaringPlayer == room.players[d]
  IN  [room EXCEPT
         !.lastAction = <<"correct", declaringPlayer.name, declaringPlayer.name,
                          declaration.suit, "-", declaration.setType,
                          declaringPlayer.team>>,
         !.players = [i \in DOMAIN @ |->
                        IF /\ @[i].team = declaringPlayer.team
                           /\ @[i].id # declaringPlayer.id
                           /\ @[i].connected
                           /\ @[i].hand # {}
                        THEN [@[i] EXCEPT !.canClaimTurn = TRUE]
                        ELSE @[i]]]

\* the branch of declareSet for a correct declaration
DeclareCorrect(room, d, declaration) ==
  LET declaringPlayer == room.players[d]
  IN  [room EXCEPT
         !.currentTurnPlayerId = declaringPlayer.id,
         !.lastAction = <<"correct", declaringPlayer.name, declaringPlayer.name,
                          declaration.suit, "-", declaration.setType,
                          declaringPlayer.team>>,
         !.players = [i \in DOMAIN @ |->
                        IF /\ @[i].team = declaringPlayer.team
                           /\ @[i].id # declaringPlayer.id
                           /\ @[i].connected
                           /\ @[i].hand # {}
                        THEN [@[i] EXCEPT !.canClaimTurn = TRUE]
                        ELSE @[i]]]

\* the two branches of declareSet that hand the turn to the seat n of the
\* other team
DeclareIncorrect(room, d, declaration, setWinner, n) ==
  LET declaringPlayer == room.players[d]
      nextPlayer      == room.players[n]
  IN  [room EXCEPT
         !.currentTurnPlayerId = nextPlayer.id,
         !.lastAction = <<"incorrect", declaringPlayer.name, nextPlayer.name,
                          declaration.suit, "-", declaration.setType, setWinner>>,
         !.players = [i \in DOMAIN @ |->
                        IF /\ @[i].team = setWinner
                           /\ @[i].id # nextPlayer.id
                           /\ @[i].hand # {}
                        THEN [@[i] EXCEPT !.canClaimTurn = TRUE]
                        ELSE @[i]]]

\* the rest of declareSet with a strip of the hands of the capturing team
\* only
CaptureAndStripWinner(room, declaration, setWinner) ==
  LET captured == [room EXCEPT !.capturedSets =
                     Append(@, [suit |-> declaration.suit,
                                setType |-> declaration.setType,
                                team |-> setWinner])]
      winner   == checkWinCondition(captured.capturedSets)
      decided  == IF winner # "null"
                  THEN [captured EXCEPT
                          !.gameStatus = "finished",
                          !.winner = winner,
                          !.lastAction = <<"win", 0, 0, "-", "-", "-", winner>>,
                          !.currentTurnPlayerId = NoId,
                          !.players = ResetClaims(@)]
                  ELSE captured
  IN  [decided EXCEPT !.players =
         [i \in DOMAIN @ |->
            IF @[i].team # setWinner THEN @[i]
            ELSE [@[i] EXCEPT !.hand =
                    {card \in @ : ~ (/\ card.suit = declaration.suit
                                     /\ card.setType = declaration.setType)}]]]

\* the capture that, on a decision, finishes the game and leaves
\* currentTurnPlayerId as the declaration set it
CaptureAndStripKeepTurn(room, declaration, setWinner) ==
  LET captured == [room EXCEPT !.capturedSets =
                     Append(@, [suit |-> declaration.suit,
                                setType |-> declaration.setType,
                                team |-> setWinner])]
      winner   == checkWinCondition(captured.capturedSets)
      decided  == IF winner # "null"
                  THEN [captured EXCEPT
                          !.gameStatus = "finished",
                          !.winner = winner,
                          !.lastAction = <<"win", 0, 0, "-", "-", "-", winner>>,
                          !.players = ResetClaims(@)]
                  ELSE captured
  IN  [decided EXCEPT !.players =
         [i \in DOMAIN @ |->
            [@[i] EXCEPT !.hand =
               {card \in @ : ~ (/\ card.suit = declaration.suit
                                /\ card.rank \in requiredRanks(declaration.setType)
                                /\ card.setType = declaration.setType)}]]]

\* the rest of declareSet: the capture, the win check and the strip
CaptureAndStrip(room, declaration, setWinner) ==
  LET captured == [room EXCEPT !.capturedSets =
                     Append(@, [suit |-> declaration.suit,
                                setType |-> declaration.setType,
                                team |-> setWinner])]
      winner   == checkWinCondition(captured.capturedSets)
      decided  == IF winner # "null"
                  THEN [captured EXCEPT
                          !.gameStatus = "finished",
                          !.winner = winner,
                          !.lastAction = <<"win", 0, 0, "-", "-", "-", winner>>,
                          !.currentTurnPlayerId = NoId,
                          !.players = ResetClaims(@)]
                  ELSE captured
  IN  [decided EXCEPT !.players =
         [i \in DOMAIN @ |->
            [@[i] EXCEPT !.hand =
               {card \in @ : ~ (/\ card.suit = declaration.suit
                                /\ card.rank \in requiredRanks(declaration.setType)
                                /\ card.setType = declaration.setType)}]]]

\* declareSet drawing the next player, after an incorrect declaration, among
\* all the connected opponents with cards, whether some hold a card of the
\* set or not
declareSetAnyOpponent(room, socketId, declaration, r) ==
  LET reset == [room EXCEPT !.players = ResetClaims(@)]
      d     == FindIndexById(reset.players, socketId)
  IN  IF d = 0 THEN Out(reset, "PlayerNotFound")
      ELSE IF ~ reset.players[d].connected THEN Out(reset, "PlayerNotFound")
      ELSE IF ~ HasCardOfSet(reset.players[d].hand, declaration.suit,
                             declaration.setType)
      THEN Out(reset, "InvalidDeclaration")
      ELSE
        LET declaringPlayer == reset.players[d]
            hasSet == teamHasCompleteSet(reset.players, declaringPlayer.team,
                                         declaration.suit, declaration.setType)
            setWinner == IF hasSet THEN declaringPlayer.team
                         ELSE otherTeam(declaringPlayer.team)
            opposingTeamPlayersWithCards ==
              {i \in DOMAIN reset.players :
                 /\ reset.players[i].team = setWinner
                 /\ reset.players[i].connected
                 /\ reset.players[i].hand # {}}
        IN  IF hasSet
            THEN Out(CaptureAndStrip(DeclareCorrect(reset, d, declaration),
                                     declaration, setWinner), "correct")
            ELSE IF opposingTeamPlayersWithCards # {}
            THEN Out(CaptureAndStrip(
                       DeclareIncorrect(reset, d, declaration, setWinner,
                         Nth(opposingTeamPlayersWithCards,
                             RandomIndex(r, Cardinality(opposingTeamPlayersWithCards)))),
                       declaration, setWinner), "incorrect")
            ELSE Out(reset, "NoOpposingCards")

\* declareSet recording the capture for the other team although none of its
\* connected seats holds a card
declareSetCaptureAnyway(room, socketId, declaration, r) ==
  LET out == declareSetAnyOpponent(room, socketId, declaration, r)
      d   == FindIndexById(room.players, socketId)
  IN  IF out.result = "NoOpposingCards"
      THEN Out(CaptureAndStrip(out.room, declaration,
                               otherTeam(room.players[d].team)),
               "NoOpposingCards")
      ELSE out

\* socket.on('declareSet'), for a room that is playing; r is the value
\* Math.random() returns when the next player is drawn
declareSet(room, socketId, declaration, r) ==
  LET reset == [room EXCEPT !.players = ResetClaims(@)]
      d     == FindIndexById(reset.players, socketId)
  IN  IF d = 0 THEN Out(reset, "PlayerNotFound")
      ELSE IF ~ reset.players[d].connected THEN Out(reset, "PlayerNotFound")
      ELSE IF ~ HasCardOfSet(reset.players[d].hand, declaration.suit,
                             declaration.setType)
      THEN Out(reset, "InvalidDeclaration")
      ELSE
        LET declaringPlayer == reset.players[d]
            hasSet == teamHasCompleteSet(reset.players, declaringPlayer.team,
                                         declaration.suit, declaration.setType)
            setWinner == IF hasSet THEN declaringPlayer.team
                         ELSE otherTeam(declaringPlayer.team)
            opposingTeamPlayersWithCards ==
              {i \in DOMAIN reset.players :
                 /\ reset.players[i].team = setWinner
                 /\ reset.players[i].connected
                 /\ reset.players[i].hand # {}}
            contributingPlayers ==
              {i \in opposingTeamPlayersWithCards :
                 HasCardOfSet(reset.players[i].hand, declaration.suit,
                              declaration.setType)}
        IN  IF hasSet
            THEN Out(CaptureAndStrip(DeclareCorrect(reset, d, declaration),
                                     declaration, setWinner), "correct")
            ELSE IF contributingPlayers # {}
            THEN Out(CaptureAndStrip(
                       DeclareIncorrect(reset, d, declaration, setWinner,
                         Nth(contributingPlayers,
                             RandomIndex(r, Cardinality(contributingPlayers)))),
                       declaration, setWinner), "incorrect")
            ELSE IF opposingTeamPlayersWithCards # {}
            THEN Out(CaptureAndStrip(
                       DeclareIncorrect(reset, d, declaration, setWinner,
                         Nth(opposingTeamPlayersWithCards,
                             RandomIndex(r, Cardinality(opposingTeamPlayersWithCards)))),
                       declaration, setWinner), "incorrect")
            ELSE Out(reset, "NoOpposingCards")

\* claimTurn clearing the canClaimTurn of the claiming seat only
claimTurnOwnFlag(room, socketId) ==
  LET c == FindIndexById(room.players, socketId)
  IN  IF room.gameStatus # "playing" THEN Out(room, "NotInProgress")
      ELSE IF c = 0 THEN Out(room, "PlayerNotFound")
      ELSE IF ~ room.players[c].connected THEN Out(room, "PlayerNotFound")
      ELSE IF ~ room.players[c].canClaimTurn THEN Out(room, "IneligibleClaim")
      ELSE Out([room EXCEPT
                  !.currentTurnPlayerId = room.players[c].id,
                  !.lastAction = <<"claimed", room.players[c].name, 0, "-", "-",
                                   "-", room.players[c].team>>,
                  !.players[c].canClaimTurn = FALSE],
               "ok")

\* claimTurn without the reset of the canClaimTurn flags
claimTurnKeepFlags(room, socketId) ==
  LET c == FindIndexById(room.players, socketId)
  IN  IF room.gameStatus # "playing" THEN Out(room, "NotInProgress")
      ELSE IF c = 0 THEN Out(room, "PlayerNotFound")
      ELSE IF ~ room.players[c].connected THEN Out(room, "PlayerNotFound")
      ELSE IF ~ room.players[c].canClaimTurn THEN Out(room, "IneligibleClaim")
      ELSE Out([room EXCEPT
                  !.currentTurnPlayerId = room.players[c].id,
                  !.lastAction = <<"claimed", room.players[c].name, 0, "-", "-",
                                   "-", room.players[c].team>>],
               "ok")

\* socket.on('claimTurn')
claimTurn(room, socketId) ==
  LET c == FindIndexById(room.players, socketId)
  IN  IF room.gameStatus # "playing" THEN Out(room, "NotInProgress")
      ELSE IF c = 0 THEN Out(room, "PlayerNotFound")
      ELSE IF ~ room.players[c].connected THEN Out(room, "PlayerNotFound")
      ELSE IF ~ room.players[c].canClaimTurn THEN Out(room, "IneligibleClaim")
      ELSE Out([room EXCEPT
                  !.currentTurnPlayerId = room.players[c].id,
                  !.lastAction = <<"claimed", room.players[c].name, 0, "-", "-",
                                   "-", room.players[c].team>>,
                  !.players = ResetClaims(@)],
               "ok")

\* the admin failover of the disconnect handler
ReassignAdmin(room, socketId) ==
  LET connectedPlayers == {i \in DOMAIN room.players : room.players[i].connected}
  IN  IF room.adminId = socketId /\ connectedPlayers # {}
      THEN [room EXCEPT !.adminId = room.players[Nth(connectedPlayers, 0)].id]
      ELSE room

\* the turn hand-over of the disconnect handler
AdvanceTurn(room, socketId) ==
  IF room.currentTurnPlayerId = socketId /\ room.gameStatus = "playing"
  THEN [room EXCEPT !.currentTurnPlayerId = getNextPlayer(socketId, room.players)]
  ELSE room

\* the disconnect handler taking the seat out of the list
disconnectRemoveSeat(room, socketId) ==
  LET playerIndex == FindIndexById(room.players, socketId)
  IN  IF playerIndex = 0 THEN room
      ELSE ReassignAdmin(
             AdvanceTurn([room EXCEPT !.players =
                            SubSeq(@, 1, playerIndex - 1)
                              \o SubSeq(@, playerIndex + 1, Len(@))],
                         socketId),
             socketId)

\* socket.on('disconnect'), the body of the loop over the rooms
disconnect(room, socketId) ==
  LET playerIndex == FindIndexById(room.players, socketId)
  IN  IF playerIndex = 0 THEN room
      ELSE ReassignAdmin(
             AdvanceTurn([room EXCEPT !.players[playerIndex].connected = FALSE],
                         socketId),
             socketId)

(***************************************************************************)
(* Broadcasts.  What a handler sends to the sockets of the room when it    *)
(* answers `result`: "room" for the whole Room (roomUpdate, gameStarted,   *)
(* gameUpdate), "action" for actionUpdate alone, "none" when it only       *)
(* answers its caller.                                                     *)
(***************************************************************************)
Broadcast(op, result) ==
  CASE op = "joinRoom" /\ result \in {"reconnected", "joined"} -> "room"
    [] op = "createRoom" /\ result \in {"reconnected", "created"} -> "room"
    [] op = "joinTeam" /\ result = "ok" -> "room"
    [] op = "shuffleTeams" /\ result = "ok" -> "room"
    [] op = "startGame" /\ result = "started" -> "room"
    [] op = "requestCard" /\ result = "hit" -> "room"
    [] op = "requestCard" /\ result = "miss" -> "action"
    [] op = "declareSet" /\ result \in {"correct", "incorrect"} -> "room"
    [] op = "claimTurn" /\ result = "ok" -> "room"
    [] op = "disconnect" -> "room"
    [] OTHER -> "none"

\* the Room a client holds after the broadcast: the Room it was sent, or
\* the one it had with the two fields of actionUpdate replaced
ClientView(view, room, broadcast) ==
  CASE broadcast = "room" -> room
    [] broadcast = "action" ->
         [view EXCEPT !.lastAction = room.lastAction,
                      !.currentTurnPlayerId = room.currentTurnPlayerId]
    [] OTHER -> view

(***************************************************************************)
(* State.                                                                  *)
(*   gameRooms  the map of the rooms, room name -> room                    *)
(*   live       the ids of the sockets that are connected                  *)
(*   nextConn   the id the next socket gets                                *)
(*   used       the numbers of events counted against the quota            *)
(*   last       the last event that changed the state, and its outcome     *)
(* An event the server rejects without changing a room leaves the state as *)
(* it is; what the handlers answer to such events is stated on the handler *)
(* functions above.                                                        *)
(***************************************************************************)
VARIABLES gameRooms, live, nextConn, used, last

vars == <<gameRooms, live, nextConn, used, last>>

NoCard == Card("-", "-", "-")

Ev(op, result, by, target, card) ==
  [op |-> op, result |-> result, by |-> by, target |-> target, card |-> card]

SeatIds(room) == {room.players[i].id : i \in DOMAIN room.players}

AllSeatIds == UNION {SeatIds(gameRooms[rn]) : rn \in DOMAIN gameRooms}

\* seats whose socket id an earlier seat of the room has too
DupSeats(room) ==
  Cardinality({i \in DOMAIN room.players :
                 \E k \in 1..(i - 1) : room.players[k].id = room.players[i].id})

\* the names a client sends: the name of a seat, or the first unused name
NameInputs(rn) ==
  IF rn \in DOMAIN gameRooms THEN 1..(Len(gameRooms[rn].players) + 1) ELSE {1}

\* the ids a client names as the target of a request: a seat's, or none
TargetInputs(rn) ==
  IF rn \in DOMAIN gameRooms THEN SeatIds(gameRooms[rn]) \cup {NoId} ELSE {NoId}

Declarations == Range(DeclOrder)

DeclIndex(suit, setType) ==
  CHOOSE i \in DOMAIN DeclOrder :
    DeclOrder[i].suit = suit /\ DeclOrder[i].setType = setType

\* the declaration keeps to the order of DeclOrder
InDeclOrder(room, declaration) ==
  \A k \in DOMAIN room.capturedSets :
    DeclIndex(room.capturedSets[k].suit, room.capturedSets[k].setType)
      <= DeclIndex(declaration.suit, declaration.setType)

\* no room yet, a room that is not full, or a seat whose player is gone
SeatOpen ==
  \/ DOMAIN gameRooms = {}
  \/ \E rn \in DOMAIN gameRooms :
       \/ Len(gameRooms[rn].players) < gameRooms[rn].playerCount
       \/ \E i \in DOMAIN gameRooms[rn].players : ~gameRooms[rn].players[i].connected

\* io.on('connection')
Connect(q) ==
  /\ nextConn <= q.conns
  /\ SeatOpen
  /\ Cardinality(live \ AllSeatIds) < q.idle
  /\ live' = live \cup {nextConn}
  /\ nextConn' = nextConn + 1
  /\ last' = Ev("connection", "ok", nextConn, NoId, NoCard)
  /\ UNCHANGED <<gameRooms, used>>

\* The handler leaves out.room in the room's place; `odd` tells whether the
\* event is out of the ordinary course.  An event that leaves the room as it
\* was (the server only answers it) leaves the state as it was.
Apply(q, rn, out, odd, by, target, card, op) ==
  IF out.room = gameRooms[rn] THEN UNCHANGED vars
  ELSE /\ odd => used.odd + 2 <= q.odd /\ gameRooms[rn].gameStatus \in q.oddIn
       /\ DupSeats(out.room) > DupSeats(gameRooms[rn]) => by \in q.oddSockets
       /\ gameRooms' = [gameRooms EXCEPT ![rn] = out.room]
       /\ last' = Ev(op, out.result, by, target, card)
       /\ used' = IF odd THEN [used EXCEPT !.odd = @ + 2] ELSE used
       /\ UNCHANGED <<live, nextConn>>

JoinRoom(q, c, rn, playerName) ==
  /\ rn \in DOMAIN gameRooms
  /\ LET out == joinRoom(gameRooms[rn], c, playerName)
     IN  Apply(q, rn, out, DupSeats(out.room) > DupSeats(gameRooms[rn]),
               c, NoId, NoCard, "joinRoom")

CreateRoom(q, c, rn, playerName, playerCount) ==
  IF rn \in DOMAIN gameRooms
  THEN LET out == createRoomExisting(gameRooms[rn], c, playerName)
       IN  Apply(q, rn, out, DupSeats(out.room) > DupSeats(gameRooms[rn]),
                 c, NoId, NoCard, "createRoom")
  ELSE /\ gameRooms' = (rn :> NewRoom(Player(c, playerName), playerCount)) @@ gameRooms
       /\ last' = Ev("createRoom", "created", c, NoId, NoCard)
       /\ UNCHANGED <<live, nextConn, used>>

JoinTeam(q, c, rn, team) ==
  /\ rn \in DOMAIN gameRooms
  /\ LET out == joinTeam(gameRooms[rn], c, team)
     IN  /\ out.result = "ok" =>
              TeamCount(out.room.players, "unassigned")
                >= Len(out.room.players) - q.picks
         /\ Apply(q, rn, out, FALSE, c, NoId, NoCard, "joinTeam")

ShuffleTeams(q, c, rn, r) ==
  /\ rn \in DOMAIN gameRooms
  /\ LET room == gameRooms[rn]
         out  == shuffleTeams(room, c, r)
     IN  IF room.gameStatus = "waiting" /\ out.room # room
         THEN /\ used.shuffles < q.shuffles
              /\ gameRooms' = [gameRooms EXCEPT ![rn] = out.room]
              /\ used' = [used EXCEPT !.shuffles = @ + 1]
              /\ last' = Ev("shuffleTeams", "ok", c, NoId, NoCard)
              /\ UNCHANGED <<live, nextConn>>
         ELSE Apply(q, rn, out, TRUE, c, NoId, NoCard, "shuffleTeams")

StartGame(q, c, rn, r, pick) ==
  /\ rn \in DOMAIN gameRooms
  /\ LET room == gameRooms[rn]
         out  == startGame(room, c, r, RandomIndex(pick, Len(room.players)))
     IN  Apply(q, rn, out, room.gameStatus # "waiting",
               c, out.room.currentTurnPlayerId, NoCard, "startGame")

\* requestCard answers any other socket NotYourTurn and changes nothing
HoldsTurn(c, rn) ==
  /\ rn \in DOMAIN gameRooms
  /\ gameRooms[rn].currentTurnPlayerId = c

RequestCard(q, c, rn, targetPlayerId, requestedCard) ==
  /\ rn \in DOMAIN gameRooms
  /\ gameRooms[rn].gameStatus = "playing"
  /\ LET out == requestCard(gameRooms[rn], c, targetPlayerId, requestedCard)
     IN  Apply(q, rn, out, FALSE, c, targetPlayerId,
               IF out.result = "hit" THEN requestedCard ELSE NoCard,
               "requestCard")

DeclareSet(q, c, rn, declaration, r) ==
  /\ rn \in DOMAIN gameRooms
  /\ gameRooms[rn].gameStatus = "playing"
  /\ Len(gameRooms[rn].capturedSets) < q.captures
  /\ DeclIndex(declaration.suit, declaration.setType) <= q.sets
  /\ DeclIndex(declaration.suit, declaration.setType)
       <= Len(gameRooms[rn].capturedSets) + 1 + q.skips
  /\ InDeclOrder(gameRooms[rn], declaration)
  /\ LET out == declareSet(gameRooms[rn], c, declaration, r)
     IN  Apply(q, rn, out, FALSE, c, out.room.currentTurnPlayerId,
               Card(declaration.suit, "-", declaration.setType), "declareSet")

ClaimTurn(q, c, rn) ==
  /\ rn \in DOMAIN gameRooms
  /\ LET out == claimTurn(gameRooms[rn], c)
     IN  Apply(q, rn, out, FALSE, c, NoId, NoCard, "claimTurn")

\* the handler changes nothing when the socket holds no seat
Disconnect(q, c) ==
  /\ c \in AllSeatIds
  /\ c \in q.oddSockets
  /\ used.odd < q.odd
  /\ \A rn \in DOMAIN gameRooms :
       c \in SeatIds(gameRooms[rn]) => gameRooms[rn].gameStatus \in q.oddIn
  /\ gameRooms' = [rn \in DOMAIN gameRooms |-> disconnect(gameRooms[rn], c)]
  /\ live' = live \ {c}
  /\ used' = [used EXCEPT !.odd = @ + 1]
  /\ last' = Ev("disconnect",
                IF \E rn \in DOMAIN gameRooms :
                     /\ gameRooms[rn].gameStatus = "playing"
                     /\ gameRooms[rn].currentTurnPlayerId = c
                THEN "turnPassed" ELSE "ok",
                c, NoId, NoCard)
  /\ UNCHANGED nextConn

NextQ(q) ==
  \/ Connect(q)
  \/ \E c \in live, rn \in RoomNames : \E n \in NameInputs(rn) : JoinRoom(q, c, rn, n)
  \/ \E c \in live, rn \in RoomNames, pc \in PlayerCounts :
       \E n \in NameInputs(rn) : CreateRoom(q, c, rn, n, pc)
  \/ \E c \in live, rn \in RoomNames, team \in TeamInputs : JoinTeam(q, c, rn, team)
  \/ \E c \in live, rn \in RoomNames, r \in ShuffleRands : ShuffleTeams(q, c, rn, r)
  \/ \E c \in live, rn \in RoomNames, r \in DeckRands, pick \in TurnRands :
       StartGame(q, c, rn, r, pick)
  \/ \E c \in live, rn \in RoomNames :
       /\ HoldsTurn(c, rn)
       /\ \E t \in TargetInputs(rn), card \in RequestCards :
            RequestCard(q, c, rn, t, card)
  \/ \E c \in live, rn \in RoomNames, d \in Declarations, r \in PickRands :
       DeclareSet(q, c, rn, d, r)
  \/ \E c \in live, rn \in RoomNames : ClaimTurn(q, c, rn)
  \/ \E c \in live : Disconnect(q, c)

(***************************************************************************)
(* Spec: the server from its start, the map of rooms empty.                *)
(***************************************************************************)
Init ==
  /\ gameRooms = << >>
  /\ live = {}
  /\ nextConn = 1
  /\ used = [odd |-> 0, shuffles |-> 0]
  /\ last = Ev("none", "none", NoId, NoId, NoCard)

Next == NextQ(LobbyQuota)

Spec == Init /\ [][Next]_vars

(***************************************************************************)
(* SpecGame: a game among six clients that stay connected.  Sockets 1..6 have connected,   *)
(* socket 1 has created room R1 for 6 players under the name 1, sockets    *)
(* 2..6 have joined it under the names 2..6, and socket 1, the admin, has  *)
(* shuffled the teams with Math.random() returning 0.99 throughout.  The   *)
(* room is the one the handlers above leave after these events.            *)
(***************************************************************************)
RECURSIVE LobbyAfterJoins(_)
LobbyAfterJoins(n) ==
  IF n = 1 THEN NewRoom(Player(1, 1), 6)
  ELSE joinRoom(LobbyAfterJoins(n - 1), n, n).room

FullLobby == shuffleTeams(LobbyAfterJoins(6), 1, <<99, 100>>).room

InitGame ==
  /\ gameRooms = ("R1" :> FullLobby)
  /\ live = 1..6
  /\ nextConn = 7
  /\ used = [odd |-> 0, shuffles |-> 0]
  /\ last = Ev("shuffleTeams", "ok", 1, NoId, NoCard)

NextGame ==
  \/ \E c \in live, rn \in RoomNames, r \in DeckRands, pick \in TurnRands :
       StartGame(GameQuota, c, rn, r, pick)
  \/ \E c \in live, rn \in RoomNames :
       /\ HoldsTurn(c, rn)
       /\ \E t \in TargetInputs(rn), card \in RequestCards :
            RequestCard(GameQuota, c, rn, t, card)
  \/ \E c \in live, rn \in RoomNames, d \in Declarations, r \in PickRands :
       DeclareSet(GameQuota, c, rn, d, r)
  \/ \E c \in live, rn \in RoomNames : ClaimTurn(GameQuota, c, rn)

SpecGame == InitGame /\ [][NextGame]_vars

(***************************************************************************)
(* SpecOdd: the same full lobby, and then a game in which clients leave,   *)
(* come back on new sockets, and the admin starts the game again.          *)
(***************************************************************************)
NextOdd == NextQ(OddQuota)

SpecOdd == InitGame /\ [][NextOdd]_vars

(***************************************************************************)
(* SpecLeave: the same full lobby, and then a game that the three seats of *)
(* the blue team leave one after the other, their cards still in their     *)
(* hands; the seats declare and claim, and request no card.                *)
(***************************************************************************)
LeaveQuota == [conns |-> 6, idle |-> 0, odd |-> 3, oddIn |-> {"playing"},
               oddSockets |-> {4, 5, 6},
               picks |-> 0, shuffles |-> 0, captures |-> 2, sets |-> 5,
               skips |-> 8]

NextLeave ==
  \/ \E c \in live, rn \in RoomNames, r \in DeckRands, pick \in TurnRands :
       StartGame(LeaveQuota, c, rn, r, pick)
  \/ \E c \in live, rn \in RoomNames, d \in Declarations, r \in PickRands :
       DeclareSet(LeaveQuota, c, rn, d, r)
  \/ \E c \in live, rn \in RoomNames : ClaimTurn(LeaveQuota, c, rn)
  \/ \E c \in live : Disconnect(LeaveQuota, c)

SpecLeave == InitGame /\ [][NextLeave]_vars

(***************************************************************************)
(* SpecStall: the game the blue team leaves, played further: the red seats *)
(* declare the first four sets of DeclOrder, claim, and request no card.   *)
(***************************************************************************)
StallQuota == [conns |-> 6, idle |-> 0, odd |-> 3, oddIn |-> {"playing"},
               oddSockets |-> {4, 5, 6},
               picks |-> 0, shuffles |-> 0, captures |-> 4, sets |-> 4,
               skips |-> 0]

NextStall ==
  \/ \E c \in live, rn \in RoomNames, r \in DeckRands, pick \in TurnRands :
       StartGame(StallQuota, c, rn, r, pick)
  \/ \E c \in live, rn \in RoomNames, d \in Declarations, r \in PickRands :
       DeclareSet(StallQuota, c, rn, d, r)
  \/ \E c \in live, rn \in RoomNames : ClaimTurn(StallQuota, c, rn)
  \/ \E c \in live : Disconnect(StallQuota, c)

SpecStall == InitGame /\ [][NextStall]_vars

(***************************************************************************)
(* SpecRequest: isValidRequest on its own.  The server holds no room; the  *)
(* event `last` carries the two players and the card the function is       *)
(* applied to, and then what it returns.                                   *)
(***************************************************************************)
RequestPlayer(id, team, hand) ==
  [Player(id, id) EXCEPT !.team = team, !.hand = hand]

InitRequest ==
  /\ gameRooms = << >>
  /\ live = {}
  /\ nextConn = 1
  /\ used = [odd |-> 0, shuffles |-> 0]
  /\ \E rt \in RequestTeams, tt \in RequestTeams, rh \in RequesterHands,
        th \in TargetHands, card \in RequestCards :
       last = Ev("input", "-", RequestPlayer(1, rt, rh), RequestPlayer(2, tt, th), card)

IsValidRequest ==
  /\ last.op = "input"
  /\ last' = [last EXCEPT !.op = "isValidRequest",
                          !.result = isValidRequest(last.by, last.target, last.card)]
  /\ UNCHANGED <<gameRooms, live, nextConn, used>>

NextRequest == IsValidRequest

SpecRequest == InitRequest /\ [][NextRequest]_vars

(***************************************************************************)
(* SpecTurn: getNextPlayer on its own, run one iteration of its loop at a  *)
(* time.  The server holds no room; the event `last` carries the call      *)
(* (the seat list and currentPlayerId in `by`), the loop variable          *)
(* nextIndex in `target`, and in the end what the function returns.  The   *)
(* seat lists have 1 to MaxSeats seats, seat i with id i, each connected   *)
(* or not; currentPlayerId is the id of a seat or of none.  The function   *)
(* runs to its end once called: the loop is weakly fair.                   *)
(***************************************************************************)
TurnLists ==
  UNION {{[i \in 1..n |-> [Player(i, i) EXCEPT !.connected = connected[i]]] :
            connected \in [1..n -> BOOLEAN]} : n \in 1..MaxSeats}

InitTurn ==
  /\ gameRooms = << >>
  /\ live = {}
  /\ nextConn = 1
  /\ used = [odd |-> 0, shuffles |-> 0]
  /\ \E players \in TurnLists : \E currentPlayerId \in 0..Len(players) :
       last = Ev("call", NoId, [players |-> players,
                               currentPlayerId |-> currentPlayerId],
                 NoId, NoCard)

\* from the call to the first test of the loop
GetNextPlayerEnter ==
  /\ last.op = "call"
  /\ LET currentPlayerIndex == FindIndexById(last.by.players, last.by.currentPlayerId)
     IN  last' = IF currentPlayerIndex = 0
                 THEN [last EXCEPT !.op = "return",
                                   !.result = last.by.players[1].id]
                 ELSE [last EXCEPT !.op = "while",
                                   !.target = (currentPlayerIndex
                                                 % Len(last.by.players)) + 1]
  /\ UNCHANGED <<gameRooms, live, nextConn, used>>

\* one iteration of the loop, or the return that ends it
GetNextPlayerWhile ==
  /\ last.op = "while"
  /\ LET step == WhileStep(last.by.players, last.target,
                           FindIndexById(last.by.players, last.by.currentPlayerId),
                           last.by.currentPlayerId)
     IN  last' = IF step.returned
                 THEN [last EXCEPT !.op = "return", !.result = step.value,
                                   !.target = step.nextIndex]
                 ELSE [last EXCEPT !.target = step.nextIndex]
  /\ UNCHANGED <<gameRooms, live, nextConn, used>>

NextTurn == GetNextPlayerEnter \/ GetNextPlayerWhile

SpecTurn == InitTurn /\ [][NextTurn]_vars /\ WF_vars(NextTurn)

(***************************************************************************)
(* SpecDeal: the deal on its own.  A lobby of 6 or of 8 players, full and  *)
(* its teams shuffled by the admin; the admin starts the game, the deck    *)
(* being shuffled and the first player drawn with the values of DealRands. *)
(***************************************************************************)
RECURSIVE LobbyOfSize(_, _)
LobbyOfSize(playerCount, n) ==
  IF n = 1 THEN NewRoom(Player(1, 1), playerCount)
  ELSE joinRoom(LobbyOfSize(playerCount, n - 1), n, n).room

InitDeal ==
  /\ \E playerCount \in {6, 8}, r \in DealRands :
       /\ gameRooms = ("R1" :> shuffleTeams(LobbyOfSize(playerCount, playerCount),
                                            1, r).room)
       /\ live = 1..playerCount
       /\ nextConn = playerCount + 1
  /\ used = [odd |-> 0, shuffles |-> 0]
  /\ last = Ev("shuffleTeams", "ok", 1, NoId, NoCard)

NextDeal ==
  \E c \in live, rn \in RoomNames, r \in DealRands, pick \in DealRands :
    StartGame(GameQuota, c, rn, r, pick)

SpecDeal == InitDeal /\ [][NextDeal]_vars

(***************************************************************************)
(* SpecWin: checkWinCondition on its own.  The server holds no room; the   *)
(* event `last` carries the list of captured sets the function is applied  *)
(* to, and then what it returns.  The lists are the sets of DeclOrder, in  *)
(* that order and up to all eight of them, each captured by either team.   *)
(***************************************************************************)
CapturedLists ==
  UNION {{[i \in 1..n |-> [suit    |-> DeclOrder[i].suit,
                           setType |-> DeclOrder[i].setType,
                           team    |-> teams[i]]] :
            teams \in [1..n -> {"red", "blue"}]} : n \in 0..Len(DeclOrder)}

InitWin ==
  /\ gameRooms = << >>
  /\ live = {}
  /\ nextConn = 1
  /\ used = [odd |-> 0, shuffles |-> 0]
  /\ \E capturedSets \in CapturedLists :
       last = Ev("input", "-", capturedSets, NoId, NoCard)

CheckWinCondition ==
  /\ last.op = "input"
  /\ last' = [last EXCEPT !.op = "checkWinCondition",
                          !.result = checkWinCondition(last.by)]
  /\ UNCHANGED <<gameRooms, live, nextConn, used>>

NextWin == CheckWinCondition

SpecWin == InitWin /\ [][NextWin]_vars

(***************************************************************************)
(* Properties.                                                             *)
(***************************************************************************)
SeatOf(room, id) == FindIndexById(room.players, id)

Hands(room) == [i \in DOMAIN room.players |-> room.players[i].hand]

PlayingRooms == {rn \in DOMAIN gameRooms : gameRooms[rn].gameStatus = "playing"}

\* the sockets that have been opened so far, and the next one
Sockets == 1..nextConn

HandsHolding(room, card) ==
  Cardinality({i \in DOMAIN room.players : card \in room.players[i].hand})

IsCaptured(room, card) ==
  \E k \in DOMAIN room.capturedSets :
    /\ room.capturedSets[k].suit = card.suit
    /\ room.capturedSets[k].setType = card.setType

\* C1: while a room is playing, each of the 48 cards is either in exactly
\* one seat's hand, or its (suit, setType) is captured and it is in no hand.
C1_CardConservation ==
  \A rn \in PlayingRooms :
    \A card \in Range(UnshuffledDeck) :
      IF IsCaptured(gameRooms[rn], card)
      THEN HandsHolding(gameRooms[rn], card) = 0
      ELSE HandsHolding(gameRooms[rn], card) = 1

\* C2: while a room is playing, currentTurnPlayerId is the id of exactly one
\* seat of the room, connected or not.
C2_SingleTurnHolder ==
  \A rn \in PlayingRooms :
    Cardinality({i \in DOMAIN gameRooms[rn].players :
                   gameRooms[rn].players[i].id = gameRooms[rn].currentTurnPlayerId}) = 1

\* C3: gameStatus changes only from waiting to playing, by an accepted
\* startGame, and from playing to finished, by a declareSet; and a startGame
\* changes a room only if the room is waiting.
C3_LifecycleMonotone ==
  [][\A rn \in DOMAIN gameRooms :
       LET before == gameRooms[rn].gameStatus
           after  == gameRooms'[rn].gameStatus
       IN  /\ before # after =>
                \/ before = "waiting" /\ after = "playing" /\ last'.op = "startGame"
                \/ before = "playing" /\ after = "finished" /\ last'.op = "declareSet"
           /\ (last'.op = "startGame" /\ gameRooms'[rn] # gameRooms[rn]) =>
                before = "waiting"]_vars

\* C4: in a playing (hence full) room, a joinRoom from a new socket under the
\* name of a disconnected seat is answered as a reconnection, and leaves the
\* room as it was but for that seat's id, now the new socket's, and its
\* connected flag, now true.
C4_ReconnectionDuringGame ==
  \A rn \in PlayingRooms :
    LET room == gameRooms[rn]
    IN  \A i \in DOMAIN room.players :
          ~ room.players[i].connected =>
            LET out == joinRoom(room, nextConn, room.players[i].name)
            IN  /\ out.result = "reconnected"
                /\ out.room = [room EXCEPT !.players[i].id = nextConn,
                                           !.players[i].connected = TRUE]

\* the seats of a room in cyclic order, from the one after seat i to seat i
CyclicAfter(room, i) ==
  [k \in 1..Len(room.players) |-> ((i - 1 + k) % Len(room.players)) + 1]

\* the first connected seat after seat i in cyclic order; 0 if there is none
FirstConnectedAfter(room, i) ==
  LET order == CyclicAfter(room, i)
      conn  == {k \in DOMAIN order : room.players[order[k]].connected}
  IN  IF conn = {} THEN 0
      ELSE order[CHOOSE k \in conn : \A m \in conn : k <= m]

\* C5: when the socket whose seat holds the turn of a playing room
\* disconnects, the turn goes to the first connected seat after that seat in
\* cyclic order, if there is one; any other disconnect leaves the room's
\* currentTurnPlayerId as it was.
C5_DisconnectAdvancesTurn ==
  [][(last'.op = "disconnect" /\ live' # live) =>
       \A rn \in DOMAIN gameRooms :
         LET room  == gameRooms[rn]
             after == gameRooms'[rn]
             i     == SeatOf(room, last'.by)
         IN  IF /\ i # 0
                /\ room.gameStatus = "playing"
                /\ room.currentTurnPlayerId = last'.by
             THEN LET n == FirstConnectedAfter(after, i)
                  IN  /\ ~ after.players[i].connected
                      /\ n # 0 => after.currentTurnPlayerId = after.players[n].id
             ELSE after.currentTurnPlayerId = room.currentTurnPlayerId]_vars

\* a turn holder has disconnected, the seat after it was disconnected
\* already, and the turn is with a connected seat
C5_Witness ==
  /\ last.op = "disconnect"
  /\ last.result = "turnPassed"
  /\ \E rn \in PlayingRooms :
       LET room == gameRooms[rn]
           i    == SeatOf(room, last.by)
           t    == SeatOf(room, room.currentTurnPlayerId)
       IN  /\ i # 0
           /\ ~ room.players[CyclicAfter(room, i)[1]].connected
           /\ t # 0
           /\ room.players[t].connected

\* C6: in a playing room, a request of the turn holder that isValidRequest
\* accepts, for a card the target holds, is a hit: the card leaves the
\* target's hand and joins the requester's, no other hand changes, and the
\* turn stays with the requester.
C6_RequestHit ==
  \A rn \in PlayingRooms :
    LET room == gameRooms[rn]
        c    == room.currentTurnPlayerId
        r    == SeatOf(room, c)
    IN  \A t \in SeatIds(room), card \in RequestCards :
          LET ti == SeatOf(room, t)
          IN  (/\ r # 0
               /\ isValidRequest(room.players[r], room.players[ti], card).valid
               /\ card \in room.players[ti].hand) =>
                LET out == requestCard(room, c, t, card)
                IN  /\ out.result = "hit"
                    /\ Hands(out.room) =
                         [i \in DOMAIN room.players |->
                            IF i = ti THEN room.players[i].hand \ {card}
                            ELSE IF i = r THEN room.players[i].hand \cup {card}
                            ELSE room.players[i].hand]
                    /\ card \notin room.players[r].hand
                    /\ out.room.currentTurnPlayerId = c

C6_Witness ==
  /\ last.op = "requestCard"
  /\ last.result = "hit"
  /\ \E rn \in PlayingRooms :
       LET room == gameRooms[rn]
       IN  /\ room.currentTurnPlayerId = last.by
           /\ last.card \in room.players[SeatOf(room, last.by)].hand

\* C7: in a playing room, a request of the turn holder that isValidRequest
\* accepts, for a card the target does not hold, is a miss: the turn goes to
\* the target and no hand changes.
C7_RequestMiss ==
  \A rn \in PlayingRooms :
    LET room == gameRooms[rn]
        c    == room.currentTurnPlayerId
        r    == SeatOf(room, c)
    IN  \A t \in SeatIds(room), card \in RequestCards :
          LET ti == SeatOf(room, t)
          IN  (/\ r # 0
               /\ isValidRequest(room.players[r], room.players[ti], card).valid
               /\ card \notin room.players[ti].hand) =>
                LET out == requestCard(room, c, t, card)
                IN  /\ out.result = "miss"
                    /\ out.room.currentTurnPlayerId = t
                    /\ Hands(out.room) = Hands(room)

C7_Witness ==
  /\ last.op = "requestCard"
  /\ last.result = "miss"
  /\ last.by # last.target
  /\ \E rn \in PlayingRooms : gameRooms[rn].currentTurnPlayerId = last.target

\* C8: in a playing room, a requestCard from any socket but the one that
\* holds the turn is answered NotYourTurn and leaves the room as it was.
C8_NotYourTurn ==
  \A rn \in PlayingRooms :
    LET room == gameRooms[rn]
    IN  \A c \in Sockets \ {room.currentTurnPlayerId} :
          \A t \in SeatIds(room) \cup {NoId}, card \in RequestCards :
            requestCard(room, c, t, card) = Out(room, "NotYourTurn")

\* a seated, connected socket that does not hold the turn could make a
\* request isValidRequest accepts, while some seat may claim the turn
C8_Witness ==
  \E rn \in PlayingRooms :
    LET room == gameRooms[rn]
    IN  /\ \E i \in DOMAIN room.players : room.players[i].canClaimTurn
        /\ \E c \in live \ {room.currentTurnPlayerId} :
             /\ SeatOf(room, c) # 0
             /\ \E t \in SeatIds(room), card \in RequestCards :
                  isValidRequest(room.players[SeatOf(room, c)],
                                 room.players[SeatOf(room, t)], card).valid

\* C9: isValidRequest reports a request invalid if the target is on the
\* requester's team or unassigned, if the target's hand is empty, if the
\* requester holds the card, or if the requester holds no card of the card's
\* (suit, setType); and valid in every other case.
C9_RequestLegality ==
  last.op = "isValidRequest" =>
    LET requester == last.by
        target    == last.target
        card      == last.card
        invalid   ==
          \/ target.team = requester.team
          \/ target.team = "unassigned"
          \/ Cardinality(target.hand) = 0
          \/ card \in requester.hand
          \/ {held \in requester.hand :
                held.suit = card.suit /\ held.setType = card.setType} = {}
    IN  last.result.valid <=> ~ invalid

\* a valid request from a requester who holds another card of the set
C9_Witness ==
  /\ last.op = "isValidRequest"
  /\ last.result.valid
  /\ last.by.team # last.target.team
  /\ last.card \notin last.by.hand

\* the hands of the seats of a team, together
TeamCards(room, team) ==
  UNION {room.players[i].hand :
           i \in {k \in DOMAIN room.players : room.players[k].team = team}}

\* C10: in a playing room, a declareSet that is accepted appends exactly one
\* entry to capturedSets, for the declared (suit, setType); its team is the
\* declarer's if the hands of the declarer's team together hold all six
\* ranks of the set, and the other team otherwise.
C10_DeclarationAdjudication ==
  \A rn \in PlayingRooms :
    LET room == gameRooms[rn]
    IN  \A c \in SeatIds(room), declaration \in Declarations, r \in PickRands :
          LET out   == declareSet(room, c, declaration, r)
              team  == room.players[SeatOf(room, c)].team
              ranks == IF declaration.setType = "lower"
                       THEN {"ace", "2", "3", "4", "5", "6"}
                       ELSE {"8", "9", "10", "jack", "queen", "king"}
              whole == \A rank \in ranks :
                         Card(declaration.suit, rank, declaration.setType)
                           \in TeamCards(room, team)
          IN  out.result \in {"correct", "incorrect"} =>
                /\ out.room.capturedSets =
                     Append(room.capturedSets,
                            [suit |-> declaration.suit,
                             setType |-> declaration.setType,
                             team |-> IF whole THEN team
                                      ELSE IF team = "red" THEN "blue" ELSE "red"])
                /\ team \in {"red", "blue"}

\* a declaration has just been adjudicated against the declarer's team, and
\* an earlier one for a declarer's team
C10_Witness ==
  /\ last.op = "declareSet"
  /\ last.result = "incorrect"
  /\ \E rn \in DOMAIN gameRooms :
       LET sets == gameRooms[rn].capturedSets
       IN  /\ Len(sets) >= 2
           /\ \E k \in DOMAIN sets : sets[k].team = "red"
           /\ \E k \in DOMAIN sets : sets[k].team = "blue"

\* an accepted declaration: declareSet answers it correct or incorrect
Accepted == {"correct", "incorrect"}

\* C11: an accepted declareSet of (suit, setType) leaves no card of that
\* (suit, setType) in any hand, and every other card in the hand it was in.
C11_DeclareStrips ==
  \A rn \in PlayingRooms :
    LET room == gameRooms[rn]
    IN  \A c \in SeatIds(room), declaration \in Declarations, r \in PickRands :
          LET out == declareSet(room, c, declaration, r)
          IN  out.result \in Accepted =>
                Hands(out.room) =
                  [i \in DOMAIN room.players |->
                     {card \in room.players[i].hand :
                        ~ (card.suit = declaration.suit
                           /\ card.setType = declaration.setType)}]

\* a set has just been declared, seats of both teams hold cards, and no
\* seat holds a card of the set
C11_Witness ==
  /\ last.op = "declareSet"
  /\ last.result \in Accepted
  /\ \E rn \in DOMAIN gameRooms :
       LET room == gameRooms[rn]
       IN  /\ \E i \in DOMAIN room.players :
                room.players[i].team = "red" /\ room.players[i].hand # {}
           /\ \E i \in DOMAIN room.players :
                room.players[i].team = "blue" /\ room.players[i].hand # {}
           /\ \A i \in DOMAIN room.players :
                ~ HasCardOfSet(room.players[i].hand, last.card.suit,
                               last.card.setType)
           /\ room.capturedSets[Len(room.capturedSets)].suit = last.card.suit

\* C12: in a playing room, a declareSet of a connected seat that holds no
\* card of the declared (suit, setType) is answered InvalidDeclaration and
\* leaves the room as it was, the canClaimTurn flags included.
C12_InvalidDeclaration ==
  \A rn \in PlayingRooms :
    LET room == gameRooms[rn]
    IN  \A c \in SeatIds(room), declaration \in Declarations, r \in PickRands :
          LET d == SeatOf(room, c)
          IN  (/\ room.players[d].connected
               /\ ~ HasCardOfSet(room.players[d].hand, declaration.suit,
                                 declaration.setType)) =>
                declareSet(room, c, declaration, r) = Out(room, "InvalidDeclaration")

\* C13: in a playing room, a declareSet answered correct that leaves the
\* room playing leaves the turn with the declarer.
C13_CorrectKeepsTurn ==
  \A rn \in PlayingRooms :
    LET room == gameRooms[rn]
    IN  \A c \in SeatIds(room), declaration \in Declarations, r \in PickRands :
          LET out == declareSet(room, c, declaration, r)
          IN  (out.result = "correct" /\ out.room.gameStatus = "playing") =>
                /\ out.room.currentTurnPlayerId = c
                /\ {Card(declaration.suit, rank, declaration.setType) :
                      rank \in requiredRanks(declaration.setType)}
                     \subseteq TeamCards(room, room.players[SeatOf(room, c)].team)

\* a seat that did not hold the turn could declare a set its team holds
\* whole, the room staying playing
C13_Witness ==
  \E rn \in PlayingRooms :
    LET room == gameRooms[rn]
    IN  \E c \in SeatIds(room) \ {room.currentTurnPlayerId},
           declaration \in Declarations :
          LET out == declareSet(room, c, declaration, <<0, 1>>)
          IN  /\ out.result = "correct"
              /\ out.room.gameStatus = "playing"
              /\ last.op = "declareSet"

\* the connected seats of a team that hold a card
SeatsWithCards(room, team) ==
  {i \in DOMAIN room.players :
     /\ room.players[i].team = team
     /\ room.players[i].connected
     /\ room.players[i].hand # {}}

\* C14: in a playing room, a declareSet answered incorrect that leaves the
\* room playing gives the turn to a connected seat of the other team that
\* held a card; and to one that held a card of the declared set, if some
\* connected seat of the other team held one.
C14_IncorrectPassesTurn ==
  \A rn \in PlayingRooms :
    LET room == gameRooms[rn]
    IN  \A c \in SeatIds(room), declaration \in Declarations, r \in PickRands :
          LET out   == declareSet(room, c, declaration, r)
              team  == room.players[SeatOf(room, c)].team
              other == IF team = "red" THEN "blue" ELSE "red"
              any   == SeatsWithCards(room, other)
              ofSet == {i \in any : HasCardOfSet(room.players[i].hand,
                                                 declaration.suit,
                                                 declaration.setType)}
              turn  == out.room.currentTurnPlayerId
          IN  (out.result = "incorrect" /\ out.room.gameStatus = "playing") =>
                /\ \E i \in any : room.players[i].id = turn
                /\ ofSet # {} => \E i \in ofSet : room.players[i].id = turn

\* an incorrect declaration has passed the turn to a connected seat whose
\* team has a disconnected seat that holds cards
C14_Witness ==
  /\ last.op = "declareSet"
  /\ last.result = "incorrect"
  /\ \E rn \in PlayingRooms :
       LET room == gameRooms[rn]
           t    == SeatOf(room, room.currentTurnPlayerId)
       IN  /\ t # 0
           /\ room.players[t].connected
           /\ room.capturedSets[Len(room.capturedSets)].team = room.players[t].team
           /\ \E i \in DOMAIN room.players :
                /\ room.players[i].team = room.players[t].team
                /\ ~ room.players[i].connected
                /\ room.players[i].hand # {}

\* C15: after a declareSet answered correct or incorrect that leaves the room
\* playing, the seats whose canClaimTurn is set are exactly the seats of the
\* team that won the set, other than the new turn holder, that are connected
\* and held at least one card.
C15_ClaimFlags ==
  \A rn \in PlayingRooms :
    LET room == gameRooms[rn]
    IN  \A c \in SeatIds(room), declaration \in Declarations, r \in PickRands :
          LET out == declareSet(room, c, declaration, r)
              setWinner == out.room.capturedSets[Len(out.room.capturedSets)].team
          IN  (out.result \in Accepted /\ out.room.gameStatus = "playing") =>
                {i \in DOMAIN out.room.players : out.room.players[i].canClaimTurn}
                  = {i \in SeatsWithCards(room, setWinner) :
                       room.players[i].id # out.room.currentTurnPlayerId}

\* C16: in a playing room, a declareSet by a connected seat that holds a card
\* of the set, whose team does not hold the whole set, while no connected
\* seat of the other team holds any card, is answered NoOpposingCards:
\* capturedSets, every hand and currentTurnPlayerId stay as they were.
C16_NoOpposingCards ==
  \A rn \in PlayingRooms :
    LET room == gameRooms[rn]
    IN  \A c \in SeatIds(room), declaration \in Declarations, r \in PickRands :
          LET out  == declareSet(room, c, declaration, r)
              d    == SeatOf(room, c)
              team == room.players[d].team
          IN  ( /\ room.players[d].connected
                /\ HasCardOfSet(room.players[d].hand, declaration.suit,
                                declaration.setType)
                /\ ~ ({Card(declaration.suit, rank, declaration.setType) :
                         rank \in requiredRanks(declaration.setType)}
                        \subseteq TeamCards(room, team))
                /\ SeatsWithCards(room, IF team = "red" THEN "blue" ELSE "red") = {} )
              => /\ out.result = "NoOpposingCards"
                 /\ out.room.capturedSets = room.capturedSets
                 /\ Hands(out.room) = Hands(room)
                 /\ out.room.currentTurnPlayerId = room.currentTurnPlayerId

\* a declaration has been answered NoOpposingCards: every seat of one team
\* has left with cards in hand and a seat of the other team holds the turn
C16_Witness ==
  /\ last.op = "declareSet"
  /\ last.result = "NoOpposingCards"
  /\ \E rn \in PlayingRooms :
       LET room == gameRooms[rn]
       IN  /\ SeatsWithCards(room, "blue") = {}
           /\ TeamCards(room, "blue") # {}
           /\ SeatOf(room, last.by) # 0
           /\ room.players[SeatOf(room, last.by)].team = "red"

\* the number of sets a team has in a list of captured sets
SetsOf(capturedSets, team) ==
  Cardinality({i \in DOMAIN capturedSets : capturedSets[i].team = team})

\* C17: for every list of at most 8 captured sets, checkWinCondition returns
\* red if red has at least 5 of them, blue if blue has at least 5, draw if
\* the 8 sets are captured 4 to 4, and no winner in every other case.
C17_WinThresholds ==
  last.op = "checkWinCondition" =>
    LET redSets  == SetsOf(last.by, "red")
        blueSets == SetsOf(last.by, "blue")
    IN  /\ Len(last.by) <= 8
        /\ last.result = (CASE redSets >= 5 -> "red"
                            [] blueSets >= 5 -> "blue"
                            [] redSets = 4 /\ blueSets = 4 -> "draw"
                            [] OTHER -> "null")

\* checkWinCondition has answered draw for eight sets, and the lists include
\* 5 to 3 and 3 to 2
C17_Witness ==
  /\ last.op = "checkWinCondition"
  /\ last.result = "draw"
  /\ Len(last.by) = 8
  /\ \E l \in CapturedLists : SetsOf(l, "red") = 5 /\ SetsOf(l, "blue") = 3
                              /\ checkWinCondition(l) = "red"
  /\ \E l \in CapturedLists : SetsOf(l, "red") = 3 /\ SetsOf(l, "blue") = 2
                              /\ checkWinCondition(l) = "null"

\* a finished room has a winner, no turn holder and no canClaimTurn flag
FinishedRoomsDecided ==
  \A rn \in DOMAIN gameRooms :
    LET room == gameRooms[rn]
    IN  room.gameStatus = "finished" =>
          /\ room.winner \in {"red", "blue", "draw"}
          /\ room.currentTurnPlayerId = NoId
          /\ \A i \in DOMAIN room.players : ~ room.players[i].canClaimTurn

\* a step in which a team reaches 5 captured sets, or the 8th set is
\* captured, is a declareSet that finishes the room; and a room finishes in
\* no other step
FinishesOnDecision ==
  \A rn \in DOMAIN gameRooms \cap DOMAIN gameRooms' :
    LET old == gameRooms[rn]
        new == gameRooms'[rn]
        decision ==
          \/ \E team \in {"red", "blue"} :
               /\ SetsOf(old.capturedSets, team) < 5
               /\ SetsOf(new.capturedSets, team) >= 5
          \/ Len(old.capturedSets) < 8 /\ Len(new.capturedSets) = 8
    IN  /\ decision => new.gameStatus = "finished" /\ last'.op = "declareSet"
        /\ (old.gameStatus # "finished" /\ new.gameStatus = "finished")
             => decision /\ old.gameStatus = "playing" /\ last'.op = "declareSet"

\* C18: every finished room has winner red, blue or draw, currentTurnPlayerId
\* cleared and every canClaimTurn false; and a room becomes finished in the
\* declareSet step in which a team first reaches 5 captured sets or the 8th
\* set is captured, and in no other step.
C18_Finished == [] FinishedRoomsDecided /\ [][FinishesOnDecision]_vars

\* a declareSet has finished a room after the eighth capture, 4 to 4
C18_Witness ==
  /\ last.op = "declareSet"
  /\ \E rn \in DOMAIN gameRooms :
       LET room == gameRooms[rn]
       IN  /\ room.gameStatus = "finished"
           /\ room.winner = "draw"
           /\ Len(room.capturedSets) = 8
           /\ SetsOf(room.capturedSets, "red") = 4

\* C19: claimTurn succeeds only in a playing room, for a connected seat whose
\* canClaimTurn is set, and for every such seat; on success the caller holds
\* the turn, every canClaimTurn is false and the room is otherwise as it
\* was; on failure the room is unchanged.
C19_ClaimTurn ==
  \A rn \in DOMAIN gameRooms :
    LET room == gameRooms[rn]
    IN  \A c \in Sockets :
          LET out == claimTurn(room, c)
              d   == SeatOf(room, c)
              eligible == /\ room.gameStatus = "playing"
                          /\ d # 0
                          /\ room.players[d].connected
                          /\ room.players[d].canClaimTurn
          IN  /\ out.result = "ok" <=> eligible
              /\ out.result = "ok" =>
                    /\ out.room.currentTurnPlayerId = c
                    /\ \A i \in DOMAIN out.room.players :
                         ~ out.room.players[i].canClaimTurn
                    /\ [out.room EXCEPT !.lastAction = room.lastAction]
                         = [room EXCEPT !.currentTurnPlayerId = c,
                                        !.players = ResetClaims(@)]
              /\ out.result # "ok" =>
                    /\ out.room = room
                    /\ room.gameStatus = "playing" =>
                         out.result \in {"PlayerNotFound", "IneligibleClaim"}

\* a seat that did not hold the turn has claimed it, and a claim by another
\* socket is now refused as ineligible
C19_Witness ==
  /\ last.op = "claimTurn"
  /\ last.result = "ok"
  /\ \E rn \in PlayingRooms :
       LET room == gameRooms[rn]
       IN  /\ room.currentTurnPlayerId = last.by
           /\ \A i \in DOMAIN room.players : ~ room.players[i].canClaimTurn
           /\ \E c \in Sockets : claimTurn(room, c).result = "IneligibleClaim"

\* in a room that is playing, the step gave the turn to the connection that
\* acted, whose seat did not hold it before
TurnTakenByCaller(rn) ==
  LET old == gameRooms[rn]
      new == gameRooms'[rn]
      d   == SeatOf(new, last'.by)
  IN  /\ old.gameStatus = "playing"
      /\ new # old
      /\ d # 0
      /\ new.currentTurnPlayerId = last'.by
      /\ old.currentTurnPlayerId # last'.by
      /\ old.currentTurnPlayerId # old.players[d].id

\* C20: while a room is playing, the only steps after which the acting
\* connection holds the turn although it did not hold it before are an
\* accepted claimTurn and an accepted declareSet.
C20_OnlyClaimOrDeclare ==
  [][\A rn \in DOMAIN gameRooms \cap DOMAIN gameRooms' :
       TurnTakenByCaller(rn) =>
         \/ last'.op = "claimTurn" /\ last'.result = "ok"
         \/ last'.op = "declareSet" /\ last'.result \in Accepted]_vars

\* C21: createRoom with the name of a room that exists is answered
\* RoomAlreadyExists and leaves the room as it was, whatever the player
\* name; createRoom with a fresh name makes a waiting room of one seat, the
\* creator's (unassigned, empty hand, connected), with the creator as admin.
C21_CreateRoom ==
  /\ \A rn \in DOMAIN gameRooms :
       \A c \in live, playerName \in NameInputs(rn) :
         createRoomExisting(gameRooms[rn], c, playerName)
           = Out(gameRooms[rn], "RoomAlreadyExists")
  /\ \A c \in live, playerName \in NameInputs("-"), playerCount \in PlayerCounts :
       LET newRoom == NewRoom(Player(c, playerName), playerCount)
       IN  /\ newRoom.gameStatus = "waiting"
           /\ newRoom.adminId = c
           /\ newRoom.players
                = <<[id |-> c, name |-> playerName, team |-> "unassigned",
                     hand |-> {}, connected |-> TRUE, canClaimTurn |-> FALSE]>>

\* no two seats of a room have the same name
UniqueNames ==
  \A rn \in DOMAIN gameRooms :
    LET players == gameRooms[rn].players
    IN  \A i, k \in DOMAIN players : players[i].name = players[k].name => i = k

\* what joinRoom and createRoom do with a name: the name of a disconnected
\* seat adds no seat, and a seat is added only for a name not yet in the room
JoinsKeepNames ==
  \A rn \in DOMAIN gameRooms :
    LET room == gameRooms[rn]
    IN  \A c \in live, playerName \in NameInputs(rn) :
          LET out == joinRoom(room, c, playerName)
              e   == FindIndexByName(room.players, playerName)
          IN  /\ (e # 0 /\ ~ room.players[e].connected)
                    => Len(out.room.players) = Len(room.players)
              /\ Len(out.room.players) # Len(room.players)
                    => /\ e = 0
                       /\ out.result = "joined"
                       /\ out.room.players
                            = Append(room.players, Player(c, playerName))
              /\ Len(createRoomExisting(room, c, playerName).room.players)
                    = Len(room.players)

\* the answer to joinRoom with the name of a connected seat
ConnectedNameAnswer(full) ==
  \A rn \in DOMAIN gameRooms :
    LET room == gameRooms[rn]
    IN  \A c \in live, playerName \in NameInputs(rn) :
          LET e == FindIndexByName(room.players, playerName)
          IN  (e # 0 /\ room.players[e].connected) =>
                joinRoom(room, c, playerName)
                  = Out(room, IF Len(room.players) >= room.playerCount
                              THEN full ELSE "NameTaken")

\* a step that adds a seat to a room is an accepted joinRoom
SeatsAddedByJoin ==
  \A rn \in DOMAIN gameRooms \cap DOMAIN gameRooms' :
    Len(gameRooms'[rn].players) # Len(gameRooms[rn].players) =>
      /\ last'.op = "joinRoom"
      /\ last'.result = "joined"
      /\ gameRooms'[rn].players
           = Append(gameRooms[rn].players,
                    gameRooms'[rn].players[Len(gameRooms'[rn].players)])

SeatsBounded ==
  \A rn \in DOMAIN gameRooms :
    LET room == gameRooms[rn]
    IN  /\ Len(room.players) <= room.playerCount
        /\ \A c \in Sockets :
             LET d == SeatOf(room, c)
             IN  disconnect(room, c).players
                   = IF d = 0 THEN room.players
                     ELSE [room.players EXCEPT ![d].connected = FALSE]

\* no step removes a room or a seat: the names of the seats of a room only grow
SeatsKept ==
  /\ DOMAIN gameRooms \subseteq DOMAIN gameRooms'
  /\ \A rn \in DOMAIN gameRooms :
       LET old == gameRooms[rn].players
           new == gameRooms'[rn].players
       IN  /\ Len(old) <= Len(new)
           /\ {old[i].name : i \in DOMAIN old} \subseteq {new[i].name : i \in DOMAIN new}

\* C23: a room has at most playerCount seats in every reachable state, and
\* no step removes a seat: the set of the seat names of a room only grows,
\* and a disconnect only sets connected to false on the seat that left.
C23_SeatsNeverRemoved == [] SeatsBounded /\ [][SeatsKept]_vars

\* a room is full and the seat of the socket that has just disconnected is
\* still in its list, marked disconnected
C23_Witness ==
  /\ last.op = "disconnect"
  /\ \E rn \in DOMAIN gameRooms :
       LET room == gameRooms[rn]
       IN  /\ Len(room.players) = room.playerCount
           /\ SeatOf(room, last.by) # 0
           /\ ~ room.players[SeatOf(room, last.by)].connected

\* C24: in every reachable state red and blue have at most playerCount/2
\* seats each; a seat's joinTeam to a team that has playerCount/2 members is
\* answered TeamFull and changes nothing; an accepted joinTeam changes the
\* caller's team and nothing else; and the teams shuffleTeams assigns keep
\* to the limit.
C24_TeamSizes ==
  \A rn \in DOMAIN gameRooms :
    LET room == gameRooms[rn]
        half == room.playerCount \div 2
    IN  /\ TeamCount(room.players, "red") <= half
        /\ TeamCount(room.players, "blue") <= half
        /\ \A c \in Sockets, team \in TeamInputs \cup {"unassigned"} :
             LET out == joinTeam(room, c, team)
                 d   == SeatOf(room, c)
             IN  /\ (d # 0 /\ TeamCount(room.players, team) >= half)
                       => out = Out(room, "TeamFull")
                 /\ out.result = "ok"
                       => /\ d # 0
                          /\ out.room = [room EXCEPT !.players[d].team = team]
                 /\ TeamCount(out.room.players, "red") <= half
                 /\ TeamCount(out.room.players, "blue") <= half
        /\ \A c \in Sockets, r \in ShuffleRands :
             LET shuffled == shuffleTeams(room, c, r).room.players
             IN  /\ TeamCount(shuffled, "red") <= half
                 /\ TeamCount(shuffled, "blue") <= half

\* red has playerCount/2 seats: a seat of another team that asks for red is
\* answered TeamFull, and a red seat that asks for blue is accepted
C24_Witness ==
  \E rn \in DOMAIN gameRooms :
    LET room == gameRooms[rn]
    IN  /\ TeamCount(room.players, "red") = room.playerCount \div 2
        /\ \E c \in live :
             /\ SeatOf(room, c) # 0
             /\ room.players[SeatOf(room, c)].team # "red"
             /\ joinTeam(room, c, "red").result = "TeamFull"
        /\ \E c \in live :
             /\ SeatOf(room, c) # 0
             /\ room.players[SeatOf(room, c)].team = "red"
             /\ joinTeam(room, c, "blue").result = "ok"

\* a seat without its team
SeatLessTeam(player) == [player EXCEPT !.team = "-"]

\* C25: shuffleTeams by a socket that is not the admin is answered NotAdmin
\* and changes nothing; by the admin it leaves the same seats in some order
\* (ids, names, hands and connection state kept, none lost or doubled), the
\* first playerCount/2 of them red and the others blue, and the rest of the
\* room as it was.
C25_ShuffleTeams ==
  \A rn \in DOMAIN gameRooms :
    LET room == gameRooms[rn]
    IN  \A c \in Sockets, r \in ShuffleRands \cup {<<k, 6>> : k \in 1..5} :
          LET out == shuffleTeams(room, c, r)
              old == room.players
              new == out.room.players
          IN  /\ c # room.adminId => out = Out(room, "NotAdmin")
              /\ c = room.adminId =>
                    /\ out.result = "ok"
                    /\ [out.room EXCEPT !.players = old] = room
                    /\ Len(new) = Len(old)
                    /\ {SeatLessTeam(new[i]) : i \in DOMAIN new}
                         = {SeatLessTeam(old[i]) : i \in DOMAIN old}
                    /\ \A i, k \in DOMAIN new : new[i].name = new[k].name => i = k
                    /\ \A i \in DOMAIN new :
                         new[i].team = IF i <= room.playerCount \div 2
                                       THEN "red" ELSE "blue"

\* the admin has shuffled a room of more than playerCount/2 seats, and the
\* seat that created the room is no longer the first of the list
C25_Witness ==
  /\ last.op = "shuffleTeams"
  /\ last.result = "ok"
  /\ \E rn \in DOMAIN gameRooms :
       LET room == gameRooms[rn]
       IN  /\ Len(room.players) > room.playerCount \div 2
           /\ room.players[1].name # 1
           /\ room.players[1].team = "red"
           /\ room.players[Len(room.players)].team = "blue"

\* C26: startGame is accepted exactly when the caller is the admin, the room
\* has playerCount seats, and red and blue have playerCount/2 seats each;
\* otherwise it is answered NotAdmin, RoomNotFull or TeamsUnbalanced, and
\* gameStatus, the hands and currentTurnPlayerId stay as they were.
C26_StartGamePreconditions ==
  \A rn \in DOMAIN gameRooms :
    LET room == gameRooms[rn]
        half == room.playerCount \div 2
    IN  \A c \in Sockets, r \in DeckRands, pick \in TurnRands :
          LET out == startGame(room, c, r, RandomIndex(pick, Len(room.players)))
              admin    == c = room.adminId
              full     == Len(room.players) = room.playerCount
              balanced == /\ TeamCount(room.players, "red") = half
                          /\ TeamCount(room.players, "blue") = half
          IN  /\ out.result = "started" <=> (admin /\ full /\ balanced)
              /\ out.result # "started" =>
                    /\ out.result = (CASE ~ admin -> "NotAdmin"
                                        [] admin /\ ~ full -> "RoomNotFull"
                                        [] OTHER -> "TeamsUnbalanced")
                    /\ out.room.gameStatus = room.gameStatus
                    /\ Hands(out.room) = Hands(room)
                    /\ out.room.currentTurnPlayerId = room.currentTurnPlayerId

\* the admin of a full room is answered TeamsUnbalanced, the teams being
\* other than playerCount/2 red and playerCount/2 blue
C26_Witness ==
  \E rn \in DOMAIN gameRooms :
    LET room == gameRooms[rn]
    IN  /\ Len(room.players) = room.playerCount
        /\ room.gameStatus = "waiting"
        /\ room.adminId \in live
        /\ \E i \in DOMAIN room.players : room.players[i].team = "red"
        /\ startGame(room, room.adminId, <<0, 1>>, 0).result = "TeamsUnbalanced"

\* C27: after an accepted startGame every seat holds 48/playerCount cards
\* (8 for 6 players, 6 for 8), the hands are pairwise disjoint and together
\* hold each of the 48 (suit, rank) cards once, and currentTurnPlayerId is
\* the id of a seat.
C27_DealExhaustion ==
  (last.op = "startGame" /\ last.result = "started") =>
    \A rn \in DOMAIN gameRooms :
      LET room  == gameRooms[rn]
          hands == Hands(room)
          dealt == UNION {hands[i] : i \in DOMAIN hands}
      IN  /\ room.gameStatus = "playing"
          /\ \A i \in DOMAIN hands :
               Cardinality(hands[i]) = IF room.playerCount = 6 THEN 8 ELSE 6
          /\ \A i \in DOMAIN hands : Cardinality(hands[i]) * room.playerCount = 48
          /\ \A i, k \in DOMAIN hands : i # k => hands[i] \cap hands[k] = {}
          /\ {<<card.suit, card.rank>> : card \in dealt}
               = {"spades", "hearts", "diamonds", "clubs"}
                   \X {"ace", "2", "3", "4", "5", "6",
                       "8", "9", "10", "jack", "queen", "king"}
          /\ Cardinality(dealt) = 48
          /\ room.currentTurnPlayerId \in SeatIds(room)

\* a game of 8 players has been dealt, the deck shuffled out of its order,
\* and the last seat of the list has the first turn
C27_Witness ==
  /\ last.op = "startGame"
  /\ last.result = "started"
  /\ \E rn \in DOMAIN gameRooms :
       LET room == gameRooms[rn]
       IN  /\ room.playerCount = 8
           /\ Len(room.players) = 8
           /\ room.currentTurnPlayerId = room.players[8].id
           /\ \E card \in room.players[1].hand : card.suit # "spades"

\* the sockets of the seats whose canClaimTurn is set
Claimants(room) ==
  {room.players[i].id : i \in {k \in DOMAIN room.players :
                                 room.players[k].canClaimTurn}}

\* C28: after an accepted requestCard, hit or miss, every canClaimTurn of the
\* room is false, and a claimTurn by a seat that was eligible before the
\* request is rejected and changes nothing.
C28_RequestClosesClaims ==
  \A rn \in PlayingRooms :
    LET room == gameRooms[rn]
    IN  \A c \in Sockets, t \in TargetInputs(rn), card \in RequestCards :
          LET out == requestCard(room, c, t, card)
          IN  out.result \in {"hit", "miss"} =>
                /\ Claimants(out.room) = {}
                /\ \A claimant \in Claimants(room) :
                     claimTurn(out.room, claimant)
                       = Out(out.room, "IneligibleClaim")

\* the turn holder can make a request that is accepted while two other seats
\* are eligible to claim the turn, just after a declaration
C28_Witness ==
  /\ last.op = "declareSet"
  /\ \E rn \in PlayingRooms :
       LET room == gameRooms[rn]
       IN  /\ Cardinality(Claimants(room)) >= 2
           /\ \E t \in TargetInputs(rn), card \in RequestCards :
                requestCard(room, room.currentTurnPlayerId, t, card).result = "miss"
           /\ \E t \in TargetInputs(rn), card \in RequestCards :
                requestCard(room, room.currentTurnPlayerId, t, card).result = "hit"

\* the connected sockets whose seat may claim the turn
Eligible(room) ==
  {id \in Claimants(room) : room.players[SeatOf(room, id)].connected}

\* the results of the claims of the sockets of `order`, processed one after
\* the other, and the room they leave
RECURSIVE ClaimsInOrder(_, _)
ClaimsInOrder(room, order) ==
  IF order = << >> THEN [room |-> room, results |-> << >>]
  ELSE LET out  == claimTurn(room, Head(order))
           rest == ClaimsInOrder(out.room, Tail(order))
       IN  [room |-> rest.room, results |-> <<out.result>> \o rest.results]

\* the orders in which the claims of two or more of the sockets of S can be
\* processed
ClaimOrders(S) ==
  {order \in UNION {[1..n -> S] : n \in 2..Cardinality(S)} :
     \A i, k \in DOMAIN order : order[i] = order[k] => i = k}

\* C29: when two or more seats are eligible to claim the turn and each sends
\* claimTurn, then in whatever order the server processes the claims the
\* first succeeds, each later one is answered IneligibleClaim, and the seat
\* whose claim was processed first holds the turn at the end.
C29_ClaimRace ==
  \A rn \in PlayingRooms :
    LET room == gameRooms[rn]
    IN  \A order \in ClaimOrders(Eligible(room)) :
          LET done == ClaimsInOrder(room, order)
          IN  /\ done.results[1] = "ok"
              /\ \A i \in 2..Len(order) : done.results[i] = "IneligibleClaim"
              /\ done.room.currentTurnPlayerId = order[1]
              /\ done.room = claimTurn(room, order[1]).room

\* two seats are eligible after a declaration, and the two orders of their
\* claims leave the turn with different seats
C29_Witness ==
  /\ last.op = "declareSet"
  /\ \E rn \in PlayingRooms :
       LET room == gameRooms[rn]
       IN  \E a, b \in Eligible(room) :
             /\ a # b
             /\ ClaimsInOrder(room, <<a, b>>).room.currentTurnPlayerId = a
             /\ ClaimsInOrder(room, <<b, a>>).room.currentTurnPlayerId = b
             /\ ClaimsInOrder(room, <<a, b>>).results = <<"ok", "IneligibleClaim">>

\* a client that held the room as it was holds, after the handler has left
\* out.room and sent its broadcasts, the room as it is
ViewFollows(room, op, out) ==
  out.room # room => ClientView(room, out.room, Broadcast(op, out.result)) = out.room

\* C30: after every handler that changes a room, the Room a client puts
\* together from the last whole-Room broadcast and the actionUpdate fields
\* sent after it is the server's Room, the canClaimTurn of every seat
\* included.  Stated for one handler at a time, the client holding the
\* server's Room before it.
C30_ClientView ==
  \A rn \in DOMAIN gameRooms :
    LET room == gameRooms[rn]
    IN  \A c \in Sockets :
          /\ \A playerName \in NameInputs(rn) :
               /\ ViewFollows(room, "joinRoom", joinRoom(room, c, playerName))
               /\ ViewFollows(room, "createRoom",
                              createRoomExisting(room, c, playerName))
          /\ \A team \in TeamInputs :
               ViewFollows(room, "joinTeam", joinTeam(room, c, team))
          /\ \A r \in ShuffleRands :
               ViewFollows(room, "shuffleTeams", shuffleTeams(room, c, r))
          /\ \A r \in DeckRands, pick \in TurnRands :
               ViewFollows(room, "startGame",
                           startGame(room, c, r, RandomIndex(pick, Len(room.players))))
          /\ ViewFollows(room, "disconnect", Out(disconnect(room, c), "ok"))
          /\ room.gameStatus = "playing" =>
               /\ \A t \in TargetInputs(rn), card \in RequestCards :
                    ViewFollows(room, "requestCard", requestCard(room, c, t, card))
               /\ \A declaration \in Declarations, r \in PickRands :
                    ViewFollows(room, "declareSet",
                                declareSet(room, c, declaration, r))
               /\ ViewFollows(room, "claimTurn", claimTurn(room, c))

\* a playing room of the seats of `players`, the turn with currentPlayerId
TurnRoom(players, currentPlayerId) ==
  [NewRoom(players[1], 6) EXCEPT !.players = players,
                                 !.gameStatus = "playing",
                                 !.currentTurnPlayerId = currentPlayerId]

\* what getNextPlayer has returned is what the function is defined to
\* return; with no seat connected it is currentPlayerId, and then the
\* disconnect of the turn holder leaves currentTurnPlayerId as it was
ReturnsCurrentWhenAlone ==
  last.op = "return" =>
    LET players == last.by.players
        currentPlayerId == last.by.currentPlayerId
    IN  /\ last.result = getNextPlayer(currentPlayerId, players)
        /\ \A i \in DOMAIN players :
             (/\ players[i].id = currentPlayerId
              /\ \A k \in DOMAIN players : k # i => ~ players[k].connected)
             => /\ ~ players[i].connected => last.result = currentPlayerId
                /\ disconnect(TurnRoom(players, currentPlayerId),
                              currentPlayerId).currentTurnPlayerId
                     = currentPlayerId

\* C31: getNextPlayer terminates for every seat list that is not empty and
\* every combination of connected flags; with no seat connected it returns
\* the id of the current turn holder, so the disconnect of a turn holder
\* with nobody else connected leaves currentTurnPlayerId as it was.
C31_GetNextPlayerTerminates ==
  <>(last.op = "return") /\ [] ReturnsCurrentWhenAlone

\* the loop has gone all the way round a list of MaxSeats seats, none of
\* them connected, and returned the id of the current player
C31_Witness ==
  /\ last.op = "return"
  /\ Len(last.by.players) = MaxSeats
  /\ \A i \in DOMAIN last.by.players : ~ last.by.players[i].connected
  /\ last.by.currentPlayerId # NoId
  /\ last.result = last.by.currentPlayerId
  /\ last.target = last.by.currentPlayerId

\* adminId is the id of a seat of the room, and of a connected one whenever
\* a seat of the room is connected
AdminSeated(room) ==
  /\ \E i \in DOMAIN room.players : room.players[i].id = room.adminId
  /\ (\E i \in DOMAIN room.players : room.players[i].connected)
     => \E i \in DOMAIN room.players :
          /\ room.players[i].id = room.adminId
          /\ room.players[i].connected

\* C32: in every reachable state adminId is the connection id of a seat of
\* the room, and the admin seat is connected whenever a seat of the room is
\* connected, after any sequence of disconnects and rebindings of seats.
C32_AdminSeated ==
  \A rn \in DOMAIN gameRooms : AdminSeated(gameRooms[rn])

\* C33: within a room the connection ids of the seats are pairwise distinct
\* in every reachable state; one connection never holds two seats of a
\* room, whatever createRoom and joinRoom calls with different names it
\* sends.
C33_DistinctIds ==
  \A rn \in DOMAIN gameRooms :
    \A i, k \in DOMAIN gameRooms[rn].players :
      gameRooms[rn].players[i].id = gameRooms[rn].players[k].id => i = k

\* every seat of the room that may claim the turn is a team mate of the
\* turn holder, in a game in progress, and does not hold the turn itself
ClaimantsWithHolder(room) ==
  \A i \in DOMAIN room.players :
    room.players[i].canClaimTurn =>
      /\ room.gameStatus = "playing"
      /\ room.players[i].id # room.currentTurnPlayerId
      /\ \E k \in DOMAIN room.players :
           /\ room.players[k].id = room.currentTurnPlayerId
           /\ room.players[k].team = room.players[i].team

\* C34: in every reachable state every seat with canClaimTurn = true is in
\* a room whose gameStatus is playing, is on the team of the current turn
\* holder and is not the turn holder, so that an accepted claimTurn never
\* moves the turn to the other team.
C34_ClaimantsWithHolder ==
  \A rn \in DOMAIN gameRooms : ClaimantsWithHolder(gameRooms[rn])

\* the seating order of a room with the team of each seat
Seating(room) ==
  [i \in DOMAIN room.players |->
     [name |-> room.players[i].name, team |-> room.players[i].team]]

\* joinTeam and shuffleTeams leave the seating of a room in progress as it
\* is, whoever sends them
TeamHandlersIdleInGame ==
  \A rn \in PlayingRooms : \A c \in Sockets :
    /\ \A team \in TeamInputs :
         Seating(joinTeam(gameRooms[rn], c, team).room) = Seating(gameRooms[rn])
    /\ \A r \in ShuffleRands :
         Seating(shuffleTeams(gameRooms[rn], c, r).room) = Seating(gameRooms[rn])

\* no step taken in a room in progress changes its seating
SeatingKeptInGame ==
  \A rn \in DOMAIN gameRooms :
    (gameRooms[rn].gameStatus = "playing" /\ rn \in DOMAIN gameRooms')
    => Seating(gameRooms'[rn]) = Seating(gameRooms[rn])

\* C35: while gameStatus = playing no action changes the team of a seat or
\* the seating order; joinTeam and shuffleTeams have no effect on a room
\* whose game has started.
C35_SeatingFrozen ==
  [] TeamHandlersIdleInGame /\ [][SeatingKeptInGame]_vars

\* the turn holder and every seat that may claim the turn hold a card
TurnSeatsHoldCards(room) ==
  \A i \in DOMAIN room.players :
    (room.players[i].id = room.currentTurnPlayerId \/ room.players[i].canClaimTurn)
    => room.players[i].hand # {}

\* C36: after an accepted declareSet that does not end the game, the seat
\* that holds the turn has at least one card left once the declared set has
\* been stripped from the hands, and so has every seat left with
\* canClaimTurn = true.
C36_TurnSeatsHoldCards ==
  \A rn \in PlayingRooms :
    (last.op = "declareSet" /\ last.result \in Accepted)
    => TurnSeatsHoldCards(gameRooms[rn])

\* the seat that holds the turn is connected
TurnHolderConnected(room) ==
  \E i \in DOMAIN room.players :
    /\ room.players[i].id = room.currentTurnPlayerId
    /\ room.players[i].connected

\* C37: while gameStatus = playing and at least one seat is connected, the
\* seat currentTurnPlayerId refers to is connected; neither the first-turn
\* pick of startGame, nor a request miss, nor a declaration, nor a
\* disconnect leaves the turn with a disconnected seat while a connected
\* seat exists.
C37_TurnHolderConnected ==
  \A rn \in PlayingRooms :
    (\E i \in DOMAIN gameRooms[rn].players : gameRooms[rn].players[i].connected)
    => TurnHolderConnected(gameRooms[rn])

\* some connected seat of the room has a game action that the server accepts
SomeActionAccepted(room) ==
  \E i \in DOMAIN room.players :
    /\ room.players[i].connected
    /\ LET c == room.players[i].id
       IN  \/ claimTurn(room, c).result = "ok"
           \/ \E d \in Declarations, r \in PickRands :
                declareSet(room, c, d, r).result \in Accepted
           \/ \E k \in DOMAIN room.players, s \in DOMAIN UnshuffledDeck :
                requestCard(room, c, room.players[k].id, UnshuffledDeck[s]).result
                  \in {"hit", "miss"}

\* C38: in every reachable state with gameStatus = playing in which a
\* connected seat holds a card, at least one game action of a connected
\* seat (a requestCard, a declareSet or a claimTurn) would be accepted.
C38_NoDeadlock ==
  \A rn \in PlayingRooms :
    (\E i \in DOMAIN gameRooms[rn].players :
       /\ gameRooms[rn].players[i].connected
       /\ gameRooms[rn].players[i].hand # {})
    => SomeActionAccepted(gameRooms[rn])

IsPrefix(a, b) ==
  /\ Len(a) <= Len(b)
  /\ \A k \in DOMAIN a : a[k] = b[k]

\* no set is in capturedSets twice, the list has at most 8 entries, and no
\* declareSet of a captured set is accepted
CapturedOnce ==
  \A rn \in DOMAIN gameRooms :
    LET captured == gameRooms[rn].capturedSets
    IN  /\ Len(captured) <= 8
        /\ \A j, k \in DOMAIN captured :
             (captured[j].suit = captured[k].suit
              /\ captured[j].setType = captured[k].setType) => j = k
        /\ rn \in PlayingRooms =>
             \A c \in Sockets, d \in Declarations, r \in PickRands :
               IsCaptured(gameRooms[rn], d)
               => declareSet(gameRooms[rn], c, d, r).result \notin Accepted

\* every step leaves the entries of capturedSets in place
CapturedKept ==
  \A rn \in DOMAIN gameRooms :
    rn \in DOMAIN gameRooms'
    => IsPrefix(gameRooms[rn].capturedSets, gameRooms'[rn].capturedSets)

\* C39: capturedSets only grows, never holds the same (suit, setType) twice
\* and never has more than 8 entries, after any sequence of actions; once a
\* set is captured no later declareSet of that set is accepted.
C39_CapturedOnce ==
  [] CapturedOnce /\ [][CapturedKept]_vars

\* C40: a requestCard of the turn holder that is rejected as PlayerNotFound
\* or InvalidRequest leaves the whole Room as it was: the hands,
\* currentTurnPlayerId, capturedSets and the canClaimTurn of every seat; a
\* rejected request does not close a pending claim window.
C40_RejectedRequestNoChange ==
  \A rn \in PlayingRooms :
    \A t \in TargetInputs(rn), card \in RequestCards :
      LET out == requestCard(gameRooms[rn], gameRooms[rn].currentTurnPlayerId, t, card)
      IN  out.result \in {"PlayerNotFound", "InvalidRequest"}
          => out.room = gameRooms[rn]

====
